---- MODULE Spec2Model ----
(***************************************************************************)
(* Circuit breaker (internal/circuitbreaker): the state machine of         *)
(* CircuitBreaker, its Counts and generation token, and the guarded entry  *)
(* points Execute and ExecuteWithContext run by concurrent callers.        *)
(*                                                                         *)
(* In Spec every section of the code that runs under cb.mutex is one       *)
(* atomic step; SpecLock, SpecExecute and SpecDefault take the same         *)
(* sections apart into Lock, body and Unlock.                               *)
(* time.Now() is the variable now; the zero time.Time is -1, before every   *)
(* instant that time arithmetic can produce, and the clock starts at 1, so  *)
(* IsZero() is "= zero" and Before is "<".                                  *)
(***************************************************************************)
EXTENDS Integers, Naturals, Sequences, FiniteSets, TLC

\* ---------------------------------------------------------------- bounds
NumCallers == 2      \* concurrent caller slots
MaxTime == 3         \* the clock stops advancing here
MaxCount == 2        \* admissions per generation that the model explores
MaxDefaultCount == 6 \* the same, for a breaker with the default ReadyToTrip
MaxGeneration == 5   \* generations explored where time does not bound them

\* ------------------------------------------------------- program constants
StateClosed == 0
StateHalfOpen == 1
StateOpen == 2

ErrCircuitOpen == "circuit breaker is open"
ErrTooManyRequests == "too many requests"

zero == -1           \* var zero time.Time

DefaultTripAfter == 5   \* default ReadyToTrip: counts.ConsecutiveFailures > 5
DefaultTimeout == 60    \* default Timeout: 60 * time.Second
DefaultMaxRequests == 1 \* default MaxRequests

States == {StateClosed, StateHalfOpen, StateOpen}
Callers == 1..NumCallers

\* Config values the model draws from (Config.MaxRequests, Interval, Timeout,
\* ReadyToTrip as "ConsecutiveFailures >= tripN", OnStateChange set or nil).
\* tripN = 0 is a nil ReadyToTrip; window = TRUE is the ReadyToTrip made by
\* SlidingWindowConfig.MakeReadyToTrip; isSuccessful is Config.IsSuccessful:
\* "nil", or "accepts" for a classifier that returns true for the error the
\* work returns.
Configs ==
  { [maxRequests |-> 2, interval |-> 0, timeout |-> 1, tripN |-> 2,
     notify |-> TRUE, window |-> FALSE, isSuccessful |-> "accepts"],
    [maxRequests |-> 1, interval |-> 1, timeout |-> 1, tripN |-> 2,
     notify |-> TRUE, window |-> FALSE, isSuccessful |-> "nil"],
    [maxRequests |-> 1, interval |-> 0, timeout |-> 2, tripN |-> 1,
     notify |-> FALSE, window |-> FALSE, isSuccessful |-> "nil"] }

VARIABLES
  cfg,       \* the fields of CircuitBreaker set once by New
  cb,        \* state, generation, counts, expiry; notified = the calls the
             \* OnStateChange callback has received, in order
  now,       \* time.Now()
  pc,        \* per caller: "idle", "exec" (fn running inside Execute),
             \* "select" (ExecuteWithContext waiting in its select), or
             \* "returned" (the entry point has returned ret[c])
  ret,       \* per caller: the value its entry point returned
  gen,       \* per caller: the generation beforeRequest returned (0 once
             \* neither the call nor its goroutine can use it any more)
  bg,        \* per caller: the goroutine of ExecuteWithContext
  lastAdmit, \* generation returned by the latest successful beforeRequest
  stale,     \* the caller whose afterRequest, in the latest step, returned at
             \* "if generation != before" (0 when the latest step did not)
  crashed,   \* an unrecovered panic in a goroutine ended the process
  mutex,     \* cb.mutex: 0 when free, else the thread holding it (caller c
             \* is thread c, the goroutine of its ExecuteWithContext is
             \* thread NumCallers + c)
  swmu,      \* sw.mu of the sliding window: the threads holding it
  sw,        \* the SlidingWindow: size, numBucks, buckets, total
  swRead,    \* the last read of the window since its last Record or
             \* Reset: the call, its time, the counts it returned (and, for
             \* the trip predicate, its configuration, its argument and
             \* its answer)
  swLog,     \* the Records made since the window was new or Reset: <<time,
             \* success>>, oldest first
  hist,      \* the outcomes applied in the breaker's generation, in order
  fb,        \* per caller of ExecuteWithFallback: arg = the error its
             \* fallback was called with, out = what the fallback returned
  det,       \* the SlowCallDetector: its config, slowCalls, totalCalls,
             \* the durations recorded since it was new or Reset, and the
             \* answer of the last ShouldTrip since then
  ad         \* per caller, its request through an adapter (HTTP
             \* middleware, RoundTripper, HTTP client, gRPC interceptor):
             \* the adapter, how far it is, the response written, the
             \* calls made on the Metrics

vars ==
  <<cfg, cb, now, pc, ret, gen, bg, lastAdmit, stale, crashed, mutex, swmu,
    sw, swRead, swLog, hist, fb, det, ad>>

\* The state of the sliding window and the history of outcomes, which the
\* breaker's own operations leave alone.
window == <<sw, swRead, swLog>>
aux == <<window, hist, fb, det, ad>>

\* A window nobody has constructed, and a read nobody has made.
NoWindow ==
  [size |-> 0, numBucks |-> 0, buckets |-> <<>>,
   total |-> [requests |-> 0, successes |-> 0, failures |-> 0]]
NoRead ==
  [op |-> "none", at |-> 0, requests |-> 0, successes |-> 0, failures |-> 0,
   minRequests |-> 0, thresh |-> <<0, 1>>, arg |-> 0, trip |-> FALSE]

NoFallback == [arg |-> "none", out |-> "none"]

\* A detector nobody has constructed, and a caller with no request in an
\* adapter.
NoDetector ==
  [duration |-> 0, thresh |-> <<0, 1>>, slowCalls |-> 0, totalCalls |-> 0,
   log |-> <<>>, trip |-> <<>>]
NoRequest ==
  [adapter |-> "none", at |-> "idle", refused |-> "none",
   response |-> "none", metrics |-> <<>>]

AuxInit ==
  /\ sw = NoWindow /\ swRead = NoRead /\ swLog = <<>> /\ hist = <<>>
  /\ fb = [c \in Callers |-> NoFallback]
  /\ det = NoDetector
  /\ ad = [c \in Callers |-> NoRequest]

\* ------------------------------------------------------------------ Counts
ZeroCounts ==
  [Requests |-> 0, TotalSuccesses |-> 0, TotalFailures |-> 0,
   ConsecutiveSuccesses |-> 0, ConsecutiveFailures |-> 0]

countSuccessKeepRun(c) ==
  [c EXCEPT !.TotalSuccesses = @ + 1, !.ConsecutiveSuccesses = @ + 1]

countSuccess(c) ==
  [c EXCEPT !.TotalSuccesses = @ + 1, !.ConsecutiveSuccesses = @ + 1,
            !.ConsecutiveFailures = 0]

countFailureKeepRun(c) ==
  [c EXCEPT !.TotalFailures = @ + 1, !.ConsecutiveFailures = @ + 1]

countFailure(c) ==
  [c EXCEPT !.TotalFailures = @ + 1, !.ConsecutiveFailures = @ + 1,
            !.ConsecutiveSuccesses = 0]

DefaultReadyToTripAtFive(c) == c.ConsecutiveFailures >= DefaultTripAfter

DefaultReadyToTrip(c) == c.ConsecutiveFailures > DefaultTripAfter

readyToTrip(c) ==
  IF cfg.tripN = 0 THEN DefaultReadyToTrip(c)
  ELSE c.ConsecutiveFailures >= cfg.tripN

\* ----------------------------------------------------------- state machine
toNewGenerationKeepsCounts(b, t) ==
  [b EXCEPT !.generation = @ + 1,
            !.expiry = CASE b.state = StateClosed ->
                              IF cfg.interval = 0 THEN zero
                              ELSE t + cfg.interval
                         [] b.state = StateOpen -> t + cfg.timeout
                         [] OTHER -> zero]

toNewGenerationSameToken(b, t) ==
  [b EXCEPT !.counts = ZeroCounts,
            !.expiry = CASE b.state = StateClosed ->
                              IF cfg.interval = 0 THEN zero
                              ELSE t + cfg.interval
                         [] b.state = StateOpen -> t + cfg.timeout
                         [] OTHER -> zero]

toNewGeneration(b, t) ==
  [b EXCEPT !.generation = @ + 1,
            !.counts = ZeroCounts,
            !.expiry = CASE b.state = StateClosed ->
                              IF cfg.interval = 0 THEN zero
                              ELSE t + cfg.interval
                         [] b.state = StateOpen -> t + cfg.timeout
                         [] OTHER -> zero]

setStateSwapped(b, s, t) ==
  IF b.state = s THEN b
  ELSE LET prev == b.state
           b1 == toNewGeneration([b EXCEPT !.state = s], t)
       IN  IF cfg.notify THEN [b1 EXCEPT !.notified = Append(@, <<s, prev>>)]
           ELSE b1

setState(b, s, t) ==
  IF b.state = s THEN b
  ELSE LET prev == b.state
           b1 == toNewGeneration([b EXCEPT !.state = s], t)
       IN  IF cfg.notify THEN [b1 EXCEPT !.notified = Append(@, <<prev, s>>)]
           ELSE b1

currentStateOpenToClosed(b, t) ==
  CASE b.state = StateClosed ->
         IF b.expiry # zero /\ b.expiry < t THEN toNewGeneration(b, t) ELSE b
    [] b.state = StateOpen ->
         IF b.expiry < t THEN setState(b, StateClosed, t) ELSE b
    [] OTHER -> b

currentStateClosedAtExpiry(b, t) ==
  CASE b.state = StateClosed ->
         IF b.expiry # zero /\ b.expiry <= t THEN toNewGeneration(b, t) ELSE b
    [] b.state = StateOpen ->
         IF b.expiry < t THEN setState(b, StateHalfOpen, t) ELSE b
    [] OTHER -> b

currentStateAtExpiry(b, t) ==
  CASE b.state = StateClosed ->
         IF b.expiry # zero /\ b.expiry < t THEN toNewGeneration(b, t) ELSE b
    [] b.state = StateOpen ->
         IF b.expiry <= t THEN setState(b, StateHalfOpen, t) ELSE b
    [] OTHER -> b

currentState(b, t) ==
  CASE b.state = StateClosed ->
         IF b.expiry # zero /\ b.expiry < t THEN toNewGeneration(b, t) ELSE b
    [] b.state = StateOpen ->
         IF b.expiry < t THEN setState(b, StateHalfOpen, t) ELSE b
    [] OTHER -> b

onSuccessOffByOne(b, s, t) ==
  CASE s = StateClosed -> [b EXCEPT !.counts = countSuccess(@)]
    [] s = StateHalfOpen ->
         LET b1 == [b EXCEPT !.counts = countSuccess(@)]
         IN  IF b1.counts.ConsecutiveSuccesses > cfg.maxRequests
             THEN setState(b1, StateClosed, t) ELSE b1
    [] OTHER -> b

onSuccessFirstProbe(b, s, t) ==
  CASE s = StateClosed -> [b EXCEPT !.counts = countSuccess(@)]
    [] s = StateHalfOpen ->
         setState([b EXCEPT !.counts = countSuccess(@)], StateClosed, t)
    [] OTHER -> b

onSuccess(b, s, t) ==
  CASE s = StateClosed -> [b EXCEPT !.counts = countSuccess(@)]
    [] s = StateHalfOpen ->
         LET b1 == [b EXCEPT !.counts = countSuccess(@)]
         IN  IF b1.counts.ConsecutiveSuccesses >= cfg.maxRequests
             THEN setState(b1, StateClosed, t) ELSE b1
    [] OTHER -> b

onFailureOldCounts(b, s, t) ==
  CASE s = StateClosed ->
         LET b1 == [b EXCEPT !.counts = countFailure(@)]
         IN  IF readyToTrip(b.counts) THEN setState(b1, StateOpen, t) ELSE b1
    [] s = StateHalfOpen -> setState(b, StateOpen, t)
    [] OTHER -> b

onFailureHalfOpenPredicate(b, s, t) ==
  LET b1 == [b EXCEPT !.counts = countFailure(@)]
  IN  CASE s = StateClosed ->
             IF readyToTrip(b1.counts) THEN setState(b1, StateOpen, t) ELSE b1
        [] s = StateHalfOpen ->
             IF readyToTrip(b1.counts) THEN setState(b1, StateOpen, t) ELSE b1
        [] OTHER -> b

onFailure(b, s, t) ==
  CASE s = StateClosed ->
         LET b1 == [b EXCEPT !.counts = countFailure(@)]
         IN  IF readyToTrip(b1.counts) THEN setState(b1, StateOpen, t) ELSE b1
    [] s = StateHalfOpen -> setState(b, StateOpen, t)
    [] OTHER -> b

beforeRequestAdmitsOpen(b, t) ==
  LET b1 == currentState(b, t)
  IN  IF b1.state = StateHalfOpen /\ b1.counts.Requests >= cfg.maxRequests
      THEN [cb |-> b1, err |-> ErrTooManyRequests]
      ELSE [cb |-> [b1 EXCEPT !.counts.Requests = @ + 1], err |-> "nil"]

beforeRequestOffByOne(b, t) ==
  LET b1 == currentState(b, t)
  IN  IF b1.state = StateOpen THEN [cb |-> b1, err |-> ErrCircuitOpen]
      ELSE IF b1.state = StateHalfOpen
              /\ b1.counts.Requests > cfg.maxRequests
           THEN [cb |-> b1, err |-> ErrTooManyRequests]
           ELSE [cb |-> [b1 EXCEPT !.counts.Requests = @ + 1], err |-> "nil"]

beforeRequestCountsRejected(b, t) ==
  LET b1 == [currentState(b, t) EXCEPT !.counts.Requests = @ + 1]
  IN  IF b1.state = StateOpen THEN [cb |-> b1, err |-> ErrCircuitOpen]
      ELSE IF b1.state = StateHalfOpen
              /\ b1.counts.Requests > cfg.maxRequests
           THEN [cb |-> b1, err |-> ErrTooManyRequests]
           ELSE [cb |-> b1, err |-> "nil"]

\* beforeRequest: the breaker afterwards and the error returned ("nil" when
\* admitted); the generation returned is that of the breaker afterwards.
beforeRequest(b, t) ==
  LET b1 == currentState(b, t)
  IN  IF b1.state = StateOpen THEN [cb |-> b1, err |-> ErrCircuitOpen]
      ELSE IF b1.state = StateHalfOpen
              /\ b1.counts.Requests >= cfg.maxRequests
           THEN [cb |-> b1, err |-> ErrTooManyRequests]
           ELSE [cb |-> [b1 EXCEPT !.counts.Requests = @ + 1], err |-> "nil"]

afterRequestNoToken(b, before, success, t) ==
  LET b1 == currentState(b, t)
  IN  IF success THEN onSuccess(b1, b1.state, t)
      ELSE onFailure(b1, b1.state, t)

afterRequestTokenFirst(b, before, success, t) ==
  IF b.generation # before THEN b
  ELSE LET b1 == currentState(b, t)
       IN  IF success THEN onSuccess(b1, b1.state, t)
           ELSE onFailure(b1, b1.state, t)

afterRequestTokenBeforeRead(b, before, success, t) ==
  LET b1 == currentState(b, t)
  IN  IF b.generation # before THEN b1
      ELSE IF success THEN onSuccess(b1, b1.state, t)
           ELSE onFailure(b1, b1.state, t)

afterRequest(b, before, success, t) ==
  LET b1 == currentState(b, t)
  IN  IF b1.generation # before THEN b1
      ELSE IF success THEN onSuccess(b1, b1.state, t)
           ELSE onFailure(b1, b1.state, t)

\* afterRequest takes its early return: the token is not the generation that
\* currentState(now) leaves.
discards(b, before, t) == currentState(b, t).generation # before

\* New: the fields from the Config, then toNewGeneration(time.Now()).
New(t) ==
  toNewGeneration([state |-> StateClosed, generation |-> 0,
                   counts |-> ZeroCounts, expiry |-> zero,
                   notified |-> <<>>], t)

\* ------------------------------------------------------------------- Init
Init ==
  /\ cfg \in Configs
  /\ now = 1
  /\ cb = New(1)
  /\ pc = [c \in Callers |-> "idle"]
  /\ ret = [c \in Callers |-> "none"]
  /\ gen = [c \in Callers |-> 0]
  /\ bg = [c \in Callers |-> "none"]
  /\ lastAdmit = 0
  /\ stale = 0
  /\ crashed = FALSE
  /\ mutex = 0
  /\ swmu = {}
  /\ AuxInit

\* ---------------------------------------------------------------- actions
Tick ==
  /\ ~crashed
  /\ now < MaxTime
  /\ now' = now + 1
  /\ UNCHANGED <<cfg, cb, pc, ret, gen, bg, lastAdmit, crashed>>
  /\ stale' = 0
  /\ UNCHANGED <<mutex, swmu>>
  /\ UNCHANGED aux

\* Admissions per generation that the model explores.
CountCap == IF cfg.tripN = 0 THEN MaxDefaultCount ELSE MaxCount

\* A caller slot is free when its last call has returned and been consumed
\* and no goroutine of an earlier ExecuteWithContext is left.
Free(c) == pc[c] = "idle" /\ bg[c] = "none"

\* Execute, up to the call of fn (or the return of the rejection).
ExecuteCall(c) ==
  /\ ~crashed
  /\ Free(c)
  /\ LET r == beforeRequest(cb, now)
     IN  /\ r.cb.counts.Requests <= CountCap
         /\ cb' = r.cb
         /\ IF r.err = "nil"
            THEN /\ pc' = [pc EXCEPT ![c] = "exec"]
                 /\ gen' = [gen EXCEPT ![c] = r.cb.generation]
                 /\ lastAdmit' = r.cb.generation
                 /\ UNCHANGED ret
            ELSE /\ pc' = [pc EXCEPT ![c] = "returned"]
                 /\ ret' = [ret EXCEPT ![c] = r.err]
                 /\ UNCHANGED <<gen, lastAdmit>>
  /\ UNCHANGED <<cfg, now, bg, crashed>>
  /\ stale' = 0
  /\ UNCHANGED <<mutex, swmu>>
  /\ UNCHANGED aux

\* fn returns nil (ok) or an error; afterRequest(generation, err == nil).
ExecuteReturn(c) ==
  /\ ~crashed
  /\ pc[c] = "exec"
  /\ \E ok \in BOOLEAN :
       /\ cb' = afterRequest(cb, gen[c], ok, now)
       /\ ret' = [ret EXCEPT ![c] = IF ok THEN "nil" ELSE "error"]
  /\ pc' = [pc EXCEPT ![c] = "returned"]
  /\ gen' = [gen EXCEPT ![c] = 0]
  /\ UNCHANGED <<cfg, now, bg, lastAdmit, crashed>>
  /\ stale' = IF discards(cb, gen[c], now) THEN c ELSE 0
  /\ UNCHANGED <<mutex, swmu>>
  /\ UNCHANGED aux

\* fn panics: the deferred function reports a failure and panics again, in
\* the caller's goroutine.
ExecutePanic(c) ==
  /\ ~crashed
  /\ pc[c] = "exec"
  /\ cb' = afterRequest(cb, gen[c], FALSE, now)
  /\ pc' = [pc EXCEPT ![c] = "returned"]
  /\ ret' = [ret EXCEPT ![c] = "panic"]
  /\ gen' = [gen EXCEPT ![c] = 0]
  /\ UNCHANGED <<cfg, now, bg, lastAdmit, crashed>>
  /\ stale' = IF discards(cb, gen[c], now) THEN c ELSE 0
  /\ UNCHANGED <<mutex, swmu>>
  /\ UNCHANGED aux

\* ExecuteWithContext (and ExecuteWithTimeout, which only builds the
\* context), up to the select; the goroutine running fn is started.
ContextCall(c) ==
  /\ ~crashed
  /\ Free(c)
  /\ LET r == beforeRequest(cb, now)
     IN  /\ r.cb.counts.Requests <= CountCap
         /\ cb' = r.cb
         /\ IF r.err = "nil"
            THEN /\ pc' = [pc EXCEPT ![c] = "select"]
                 /\ bg' = [bg EXCEPT ![c] = "running"]
                 /\ gen' = [gen EXCEPT ![c] = r.cb.generation]
                 /\ lastAdmit' = r.cb.generation
                 /\ UNCHANGED ret
            ELSE /\ pc' = [pc EXCEPT ![c] = "returned"]
                 /\ ret' = [ret EXCEPT ![c] = r.err]
                 /\ UNCHANGED <<gen, bg, lastAdmit>>
  /\ UNCHANGED <<cfg, now, crashed>>
  /\ stale' = 0
  /\ UNCHANGED <<mutex, swmu>>
  /\ UNCHANGED aux

\* The goroutine: fn(ctx) returns and its result is sent on done (buffered,
\* so the send never blocks); nobody reads it once the select has returned.
GoroutineSend(c) ==
  /\ ~crashed
  /\ bg[c] = "running"
  /\ \E ok \in BOOLEAN :
       bg' = [bg EXCEPT ![c] = IF pc[c] = "select"
                                THEN (IF ok THEN "sent_nil" ELSE "sent_error")
                                ELSE "none"]
  /\ gen' = [gen EXCEPT ![c] = IF pc[c] = "select" THEN @ ELSE 0]
  /\ UNCHANGED <<cfg, cb, now, pc, ret, lastAdmit, crashed>>
  /\ stale' = 0
  /\ UNCHANGED <<mutex, swmu>>
  /\ UNCHANGED aux

\* The goroutine: fn(ctx) panics; the deferred function recovers, reports a
\* failure, and is about to panic again.
GoroutinePanic(c) ==
  /\ ~crashed
  /\ bg[c] = "running"
  /\ cb' = afterRequest(cb, gen[c], FALSE, now)
  /\ bg' = [bg EXCEPT ![c] = "panicking"]
  /\ gen' = [gen EXCEPT ![c] = IF pc[c] = "select" THEN @ ELSE 0]
  /\ UNCHANGED <<cfg, now, pc, ret, lastAdmit, crashed>>
  /\ stale' = IF discards(cb, gen[c], now) THEN c ELSE 0
  /\ UNCHANGED <<mutex, swmu>>
  /\ UNCHANGED aux

\* The goroutine: panic(e) with nothing left to recover it ends the process.
GoroutineCrash(c) ==
  /\ ~crashed
  /\ bg[c] = "panicking"
  /\ crashed' = TRUE
  /\ UNCHANGED <<cfg, cb, now, pc, ret, gen, bg, lastAdmit>>
  /\ stale' = 0
  /\ UNCHANGED <<mutex, swmu>>
  /\ UNCHANGED aux

\* select, case <-ctx.Done(): the context may be done at any moment.
SelectCtxDone(c) ==
  /\ ~crashed
  /\ pc[c] = "select"
  /\ cb' = afterRequest(cb, gen[c], FALSE, now)
  /\ pc' = [pc EXCEPT ![c] = "returned"]
  /\ ret' = [ret EXCEPT ![c] = "ctx.Err()"]
  /\ bg' = [bg EXCEPT ![c] = IF @ \in {"sent_nil", "sent_error"}
                                THEN "none" ELSE @]
  /\ gen' = [gen EXCEPT ![c] = IF bg[c] = "running" THEN @ ELSE 0]
  /\ UNCHANGED <<cfg, now, lastAdmit, crashed>>
  /\ stale' = IF discards(cb, gen[c], now) THEN c ELSE 0
  /\ UNCHANGED <<mutex, swmu>>
  /\ UNCHANGED aux

\* select, case err := <-done.
SelectDone(c) ==
  /\ ~crashed
  /\ pc[c] = "select"
  /\ bg[c] \in {"sent_nil", "sent_error"}
  /\ cb' = afterRequest(cb, gen[c], bg[c] = "sent_nil", now)
  /\ pc' = [pc EXCEPT ![c] = "returned"]
  /\ ret' = [ret EXCEPT ![c] = IF bg[c] = "sent_nil" THEN "nil" ELSE "error"]
  /\ bg' = [bg EXCEPT ![c] = "none"]
  /\ gen' = [gen EXCEPT ![c] = 0]
  /\ UNCHANGED <<cfg, now, lastAdmit, crashed>>
  /\ stale' = IF discards(cb, gen[c], now) THEN c ELSE 0
  /\ UNCHANGED <<mutex, swmu>>
  /\ UNCHANGED aux

\* The caller takes the returned value and is ready for its next call.
Return(c) ==
  /\ ~crashed
  /\ pc[c] = "returned"
  /\ pc' = [pc EXCEPT ![c] = "idle"]
  /\ ret' = [ret EXCEPT ![c] = "none"]
  /\ UNCHANGED <<cfg, cb, now, gen, bg, lastAdmit, crashed>>
  /\ stale' = 0
  /\ UNCHANGED <<mutex, swmu>>
  /\ UNCHANGED aux

StateCallStored ==
  /\ ~crashed
  /\ cb' = cb
  /\ UNCHANGED <<cfg, now, pc, ret, gen, bg, lastAdmit, crashed>>
  /\ stale' = 0
  /\ UNCHANGED <<mutex, swmu>>
  /\ UNCHANGED aux

\* State(): currentState under the mutex.
StateCall ==
  /\ ~crashed
  /\ cb' = currentState(cb, now)
  /\ UNCHANGED <<cfg, now, pc, ret, gen, bg, lastAdmit, crashed>>
  /\ stale' = 0
  /\ UNCHANGED <<mutex, swmu>>
  /\ UNCHANGED aux

Next ==
  \/ Tick
  \/ StateCall
  \/ \E c \in Callers : ExecuteCall(c)
  \/ \E c \in Callers : ExecuteReturn(c)
  \/ \E c \in Callers : ExecutePanic(c)
  \/ \E c \in Callers : ContextCall(c)
  \/ \E c \in Callers : GoroutineSend(c)
  \/ \E c \in Callers : GoroutinePanic(c)
  \/ \E c \in Callers : GoroutineCrash(c)
  \/ \E c \in Callers : SelectCtxDone(c)
  \/ \E c \in Callers : SelectDone(c)
  \/ \E c \in Callers : Return(c)

Spec == Init /\ [][Next]_vars

\* ------------------------------------------- a breaker made from Config{}
\* New's defaults: MaxRequests 0 becomes 1, Timeout 0 becomes 60 s; a nil
\* ReadyToTrip (tripN = 0) becomes the default predicate, see readyToTrip.
withDefaults(c) ==
  [c EXCEPT !.maxRequests = IF @ = 0 THEN DefaultMaxRequests ELSE @,
            !.timeout = IF @ = 0 THEN DefaultTimeout ELSE @]

InitDefault ==
  /\ cfg = withDefaults([maxRequests |-> 0, interval |-> 0, timeout |-> 0,
                         tripN |-> 0, notify |-> TRUE, window |-> FALSE,
                         isSuccessful |-> "nil"])
  /\ now = 1
  /\ cb = New(1)
  /\ pc = [c \in Callers |-> "idle"]
  /\ ret = [c \in Callers |-> "none"]
  /\ gen = [c \in Callers |-> 0]
  /\ bg = [c \in Callers |-> "none"]
  /\ lastAdmit = 0
  /\ stale = 0
  /\ crashed = FALSE
  /\ mutex = 0
  /\ swmu = {}
  /\ AuxInit

NextDefault ==
  \/ Tick
  \/ \E c \in Callers : ExecuteCall(c)
  \/ \E c \in Callers : ExecuteReturn(c)
  \/ \E c \in Callers : ExecutePanic(c)
  \/ \E c \in Callers : Return(c)

SpecDefault == InitDefault /\ [][NextDefault]_vars

\* ------------------------------------- Execute and State, every Interval
\* The breaker under Execute and State alone, with Interval positive, zero
\* and negative (New and toNewGeneration take a negative Interval as it is).
BreakerConfigs ==
  { [maxRequests |-> 1, interval |-> i, timeout |-> 1, tripN |-> 2,
     notify |-> TRUE, window |-> FALSE, isSuccessful |-> "nil"] :
    i \in {-1, 0, 1} }

InitBreaker ==
  /\ cfg \in BreakerConfigs
  /\ now = 1
  /\ cb = New(1)
  /\ pc = [c \in Callers |-> "idle"]
  /\ ret = [c \in Callers |-> "none"]
  /\ gen = [c \in Callers |-> 0]
  /\ bg = [c \in Callers |-> "none"]
  /\ lastAdmit = 0
  /\ stale = 0
  /\ crashed = FALSE
  /\ mutex = 0
  /\ swmu = {}
  /\ AuxInit

\* With a negative Interval every read of the state starts a generation:
\* the steps are followed up to generation MaxGeneration.
NextBreaker ==
  \/ Tick
  \/ StateCall /\ cb'.generation <= MaxGeneration
  \/ \E c \in Callers : ExecuteCall(c) /\ cb'.generation <= MaxGeneration
  \/ \E c \in Callers : ExecuteReturn(c) /\ cb'.generation <= MaxGeneration
  \/ \E c \in Callers : ExecutePanic(c) /\ cb'.generation <= MaxGeneration
  \/ \E c \in Callers : Return(c)

SpecBreaker == InitBreaker /\ [][NextBreaker]_vars

\* ------------------------------------------ the same program, lock by lock
\* Each section under cb.mutex is taken apart: one step takes the lock, the
\* next runs the body and the deferred Unlock. time.Now() is read right after
\* Lock, so the clock stands still while the mutex is held. The trip predicate
\* of a sliding window runs inside onFailure: it takes sw.mu (RLock) while
\* cb.mutex is held, and is a step of its own. lastAdmit and stale, which
\* only record history, are left alone here.

\* Threads: caller c runs on thread c, the goroutine of its
\* ExecuteWithContext on thread NumCallers + c.
Thread(c) == c
Goroutine(c) == NumCallers + c

\* SlidingWindowConfig of the window breaker.
MinRequests == 2
FailureRateThresh == <<1, 2>>   \* 0.5, as numerator and denominator

\* What sw.GetCounts() may return: requests up to MaxWindow, failures among
\* them (the window is fed by sw.Record, outside the breaker).
MaxWindow == 2

\* The function MakeReadyToTrip returns, on the counts GetCounts returned.
WindowReadyToTrip(requests, failures) ==
  IF requests < MinRequests THEN FALSE
  ELSE failures * FailureRateThresh[2] >= FailureRateThresh[1] * requests

WindowConfig ==
  [maxRequests |-> 1, interval |-> 0, timeout |-> 1, tripN |-> 1,
   notify |-> FALSE, window |-> TRUE, isSuccessful |-> "nil"]

\* The config of the lock-level specification: the window breaker.
LockConfigs == {WindowConfig}

InitLock ==
  /\ cfg \in LockConfigs
  /\ now = 1
  /\ cb = New(1)
  /\ pc = [c \in Callers |-> "idle"]
  /\ ret = [c \in Callers |-> "none"]
  /\ gen = [c \in Callers |-> 0]
  /\ bg = [c \in Callers |-> "none"]
  /\ lastAdmit = 0
  /\ stale = 0
  /\ crashed = FALSE
  /\ mutex = 0
  /\ swmu = {}
  /\ AuxInit

afterRequestHeldAnyState(b, before, success, t) ==
  LET b1 == currentState(b, t)
  IN  IF cfg.window /\ ~success /\ b1.generation = before
      THEN [cb |-> [b1 EXCEPT !.counts = countFailure(@)],
            inPredicate |-> TRUE]
      ELSE [cb |-> afterRequest(b, before, success, t),
            inPredicate |-> FALSE]

\* afterRequest up to the call of the window's trip predicate: the breaker
\* so far, and whether the predicate is now running (a failure applied in
\* Closed, counted, under a window predicate).
afterRequestHeld(b, before, success, t) ==
  LET b1 == currentState(b, t)
  IN  IF /\ cfg.window /\ ~success
         /\ b1.generation = before /\ b1.state = StateClosed
      THEN [cb |-> [b1 EXCEPT !.counts = countFailure(@)],
            inPredicate |-> TRUE]
      ELSE [cb |-> afterRequest(b, before, success, t),
            inPredicate |-> FALSE]

TickUnlocked ==
  /\ mutex = 0
  /\ Tick

\* State(): Lock, currentState, Unlock, by a thread of its own.
StateLocked ==
  /\ mutex = 0
  /\ StateCall

\* Execute: beforeRequest takes the mutex.
ExecuteLock(c) ==
  /\ ~crashed
  /\ Free(c)
  /\ mutex = 0
  /\ beforeRequest(cb, now).cb.counts.Requests <= CountCap
  /\ mutex' = Thread(c)
  /\ pc' = [pc EXCEPT ![c] = "beforeRequest"]
  /\ UNCHANGED <<cfg, cb, now, ret, gen, bg, lastAdmit, crashed, swmu>>
  /\ UNCHANGED stale
  /\ UNCHANGED aux

\* ExecuteWithContext: beforeRequest takes the mutex.
ContextLock(c) ==
  /\ ~crashed
  /\ Free(c)
  /\ mutex = 0
  /\ beforeRequest(cb, now).cb.counts.Requests <= CountCap
  /\ mutex' = Thread(c)
  /\ pc' = [pc EXCEPT ![c] = "beforeRequestCtx"]
  /\ UNCHANGED <<cfg, cb, now, ret, gen, bg, lastAdmit, crashed, swmu>>
  /\ UNCHANGED stale
  /\ UNCHANGED aux

BeforeRequestKeepsLock(c) ==
  /\ ~crashed
  /\ pc[c] \in {"beforeRequest", "beforeRequestCtx"}
  /\ mutex = Thread(c)
  /\ LET r == beforeRequest(cb, now)
     IN  /\ cb' = r.cb
         /\ IF r.err = "nil"
            THEN /\ pc' = [pc EXCEPT ![c] = IF @ = "beforeRequest"
                                            THEN "exec" ELSE "select"]
                 /\ bg' = [bg EXCEPT ![c] = IF pc[c] = "beforeRequest"
                                            THEN @ ELSE "running"]
                 /\ gen' = [gen EXCEPT ![c] = r.cb.generation]
                 /\ UNCHANGED ret
            ELSE /\ pc' = [pc EXCEPT ![c] = "returned"]
                 /\ ret' = [ret EXCEPT ![c] = r.err]
                 /\ UNCHANGED <<gen, bg>>
         /\ mutex' = IF r.err = "nil" THEN mutex ELSE 0
  /\ UNCHANGED <<cfg, now, lastAdmit, crashed, swmu>>
  /\ UNCHANGED stale
  /\ UNCHANGED aux

\* The body of beforeRequest and its deferred Unlock; an admitted Execute
\* goes on to call fn, an admitted ExecuteWithContext starts the goroutine
\* and waits in the select.
BeforeRequestUnlock(c) ==
  /\ ~crashed
  /\ pc[c] \in {"beforeRequest", "beforeRequestCtx"}
  /\ mutex = Thread(c)
  /\ LET r == beforeRequest(cb, now)
     IN  /\ cb' = r.cb
         /\ IF r.err = "nil"
            THEN /\ pc' = [pc EXCEPT ![c] = IF @ = "beforeRequest"
                                            THEN "exec" ELSE "select"]
                 /\ bg' = [bg EXCEPT ![c] = IF pc[c] = "beforeRequest"
                                            THEN @ ELSE "running"]
                 /\ gen' = [gen EXCEPT ![c] = r.cb.generation]
                 /\ UNCHANGED ret
            ELSE /\ pc' = [pc EXCEPT ![c] = "returned"]
                 /\ ret' = [ret EXCEPT ![c] = r.err]
                 /\ UNCHANGED <<gen, bg>>
  /\ mutex' = 0
  /\ UNCHANGED <<cfg, now, lastAdmit, crashed, swmu>>
  /\ UNCHANGED stale
  /\ UNCHANGED aux

\* Execute: fn returns nil or an error, or panics (and the deferred function
\* recovers); afterRequest takes the mutex.
FnDoneLock(c) ==
  /\ ~crashed
  /\ pc[c] = "exec"
  /\ mutex = 0
  /\ \E out \in {"nil", "error", "panic"} :
       ret' = [ret EXCEPT ![c] = out]
  /\ mutex' = Thread(c)
  /\ pc' = [pc EXCEPT ![c] = "afterRequest"]
  /\ UNCHANGED <<cfg, cb, now, gen, bg, lastAdmit, crashed, swmu>>
  /\ UNCHANGED stale
  /\ UNCHANGED aux

\* select, case <-ctx.Done(): afterRequest takes the mutex.
SelectCtxDoneLock(c) ==
  /\ ~crashed
  /\ pc[c] = "select"
  /\ mutex = 0
  /\ ret' = [ret EXCEPT ![c] = "ctx.Err()"]
  /\ bg' = [bg EXCEPT ![c] = IF @ \in {"sent_nil", "sent_error"}
                                THEN "none" ELSE @]
  /\ mutex' = Thread(c)
  /\ pc' = [pc EXCEPT ![c] = "afterRequest"]
  /\ UNCHANGED <<cfg, cb, now, gen, lastAdmit, crashed, swmu>>
  /\ UNCHANGED stale
  /\ UNCHANGED aux

\* select, case err := <-done: afterRequest takes the mutex.
SelectDoneLock(c) ==
  /\ ~crashed
  /\ pc[c] = "select"
  /\ bg[c] \in {"sent_nil", "sent_error"}
  /\ mutex = 0
  /\ ret' = [ret EXCEPT ![c] = IF bg[c] = "sent_nil" THEN "nil" ELSE "error"]
  /\ bg' = [bg EXCEPT ![c] = "none"]
  /\ mutex' = Thread(c)
  /\ pc' = [pc EXCEPT ![c] = "afterRequest"]
  /\ UNCHANGED <<cfg, cb, now, gen, lastAdmit, crashed, swmu>>
  /\ UNCHANGED stale
  /\ UNCHANGED aux

AfterRequestPanicUnreported(c) ==
  /\ ~crashed
  /\ pc[c] = "afterRequest"
  /\ mutex = Thread(c)
  /\ LET r == afterRequestHeld(cb, gen[c], ret[c] = "nil", now)
     IN  /\ cb' = IF ret[c] = "panic" THEN cb ELSE r.cb
         /\ pc' = [pc EXCEPT ![c] = IF r.inPredicate THEN "readyToTrip"
                                    ELSE "returned"]
         /\ mutex' = IF r.inPredicate THEN mutex ELSE 0
         /\ swmu' = IF r.inPredicate THEN swmu \cup {Thread(c)} ELSE swmu
  /\ gen' = [gen EXCEPT ![c] = IF bg[c] = "running" THEN @ ELSE 0]
  /\ UNCHANGED <<cfg, now, ret, bg, lastAdmit, crashed>>
  /\ UNCHANGED stale
  /\ UNCHANGED aux

\* The caller's afterRequest(generation, err == nil): its body, then either
\* the deferred Unlock and the return, or the call of the window's predicate,
\* whose GetCounts takes sw.mu.RLock with cb.mutex still held.
AfterRequestUnlock(c) ==
  /\ ~crashed
  /\ pc[c] = "afterRequest"
  /\ mutex = Thread(c)
  /\ LET r == afterRequestHeld(cb, gen[c], ret[c] = "nil", now)
     IN  /\ cb' = r.cb
         /\ pc' = [pc EXCEPT ![c] = IF r.inPredicate THEN "readyToTrip"
                                    ELSE "returned"]
         /\ mutex' = IF r.inPredicate THEN mutex ELSE 0
         /\ swmu' = IF r.inPredicate THEN swmu \cup {Thread(c)} ELSE swmu
  /\ gen' = [gen EXCEPT ![c] = IF bg[c] = "running" THEN @ ELSE 0]
  /\ UNCHANGED <<cfg, now, ret, bg, lastAdmit, crashed>>
  /\ UNCHANGED stale
  /\ UNCHANGED aux

\* The window's predicate returns (GetCounts has released sw.mu); onFailure
\* opens the breaker if it said so; the deferred Unlock; the return.
ReadyToTripUnlock(c) ==
  /\ ~crashed
  /\ pc[c] = "readyToTrip"
  /\ mutex = Thread(c) /\ Thread(c) \in swmu
  /\ \E requests \in 0..MaxWindow : \E failures \in 0..requests :
       cb' = IF WindowReadyToTrip(requests, failures)
             THEN setState(cb, StateOpen, now) ELSE cb
  /\ swmu' = swmu \ {Thread(c)}
  /\ mutex' = 0
  /\ pc' = [pc EXCEPT ![c] = "returned"]
  /\ UNCHANGED <<cfg, now, ret, gen, bg, lastAdmit, crashed>>
  /\ UNCHANGED stale
  /\ UNCHANGED aux

\* The goroutine: fn(ctx) panics, the deferred function recovers and its
\* afterRequest takes the mutex.
RecoverLock(c) ==
  /\ ~crashed
  /\ bg[c] = "running"
  /\ mutex = 0
  /\ mutex' = Goroutine(c)
  /\ bg' = [bg EXCEPT ![c] = "afterRequest"]
  /\ UNCHANGED <<cfg, cb, now, pc, ret, gen, lastAdmit, crashed, swmu>>
  /\ UNCHANGED stale
  /\ UNCHANGED aux

\* The goroutine's afterRequest(generation, false), as AfterRequestUnlock.
RecoverAfterRequestUnlock(c) ==
  /\ ~crashed
  /\ bg[c] = "afterRequest"
  /\ mutex = Goroutine(c)
  /\ LET r == afterRequestHeld(cb, gen[c], FALSE, now)
     IN  /\ cb' = r.cb
         /\ bg' = [bg EXCEPT ![c] = IF r.inPredicate THEN "readyToTrip"
                                    ELSE "panicking"]
         /\ mutex' = IF r.inPredicate THEN mutex ELSE 0
         /\ swmu' = IF r.inPredicate THEN swmu \cup {Goroutine(c)} ELSE swmu
  /\ gen' = [gen EXCEPT ![c] = IF pc[c] \in {"select", "afterRequest"}
                                THEN @ ELSE 0]
  /\ UNCHANGED <<cfg, now, pc, ret, lastAdmit, crashed>>
  /\ UNCHANGED stale
  /\ UNCHANGED aux

\* The goroutine's window predicate returns, as ReadyToTripUnlock.
RecoverReadyToTripUnlock(c) ==
  /\ ~crashed
  /\ bg[c] = "readyToTrip"
  /\ mutex = Goroutine(c) /\ Goroutine(c) \in swmu
  /\ \E requests \in 0..MaxWindow : \E failures \in 0..requests :
       cb' = IF WindowReadyToTrip(requests, failures)
             THEN setState(cb, StateOpen, now) ELSE cb
  /\ swmu' = swmu \ {Goroutine(c)}
  /\ mutex' = 0
  /\ bg' = [bg EXCEPT ![c] = "panicking"]
  /\ UNCHANGED <<cfg, now, pc, ret, gen, lastAdmit, crashed>>
  /\ UNCHANGED stale
  /\ UNCHANGED aux

NextLock ==
  \/ TickUnlocked
  \/ StateLocked
  \/ \E c \in Callers : ExecuteLock(c)
  \/ \E c \in Callers : ContextLock(c)
  \/ \E c \in Callers : BeforeRequestUnlock(c)
  \/ \E c \in Callers : FnDoneLock(c)
  \/ \E c \in Callers : SelectCtxDoneLock(c)
  \/ \E c \in Callers : SelectDoneLock(c)
  \/ \E c \in Callers : AfterRequestUnlock(c)
  \/ \E c \in Callers : ReadyToTripUnlock(c)
  \/ \E c \in Callers : GoroutineSend(c)
  \/ \E c \in Callers : RecoverLock(c)
  \/ \E c \in Callers : RecoverAfterRequestUnlock(c)
  \/ \E c \in Callers : RecoverReadyToTripUnlock(c)
  \/ \E c \in Callers : GoroutineCrash(c)
  \/ \E c \in Callers : Return(c)

SpecLock == InitLock /\ [][NextLock]_vars

\* Execute alone, lock by lock, under the configs of Spec.
NextExecute ==
  \/ TickUnlocked
  \/ StateLocked
  \/ \E c \in Callers : ExecuteLock(c)
  \/ \E c \in Callers : BeforeRequestUnlock(c)
  \/ \E c \in Callers : FnDoneLock(c)
  \/ \E c \in Callers : AfterRequestUnlock(c)
  \/ \E c \in Callers : Return(c)

SpecExecute == Init /\ [][NextExecute]_vars

\* Execute alone, lock by lock, on the window breaker: the call of the trip
\* predicate is a step of its own.
NextPredicate ==
  \/ TickUnlocked
  \/ StateLocked
  \/ \E c \in Callers : ExecuteLock(c)
  \/ \E c \in Callers : BeforeRequestUnlock(c)
  \/ \E c \in Callers : FnDoneLock(c)
  \/ \E c \in Callers : AfterRequestUnlock(c)
  \/ \E c \in Callers : ReadyToTripUnlock(c)
  \/ \E c \in Callers : Return(c)

SpecPredicate == InitLock /\ [][NextPredicate]_vars

\* ------------------------------------------------- steps, as seen from outside
\* Caller c called an entry point in this step (admitted or rejected).
Attempt(c) == pc[c] = "idle" /\ pc'[c] # "idle"
\* ... and was admitted: its work was started.
Admitted(c) == pc[c] = "idle" /\ pc'[c] \in {"exec", "select"}
\* ... and was rejected with e: the call returned e and no work was started.
Rejected(c, e) ==
  /\ pc[c] = "idle" /\ pc'[c] = "returned" /\ ret'[c] = e
  /\ bg'[c] = bg[c]
\* afterRequest(gen[c], TRUE) ran in this step.
ReportsSuccess(c) ==
  pc[c] \in {"exec", "select"} /\ pc'[c] = "returned" /\ ret'[c] = "nil"
\* afterRequest(gen[c], FALSE) ran in this step.
ReportsFailure(c) ==
  \/ /\ pc[c] \in {"exec", "select"} /\ pc'[c] = "returned"
     /\ ret'[c] \in {"error", "panic", "ctx.Err()"}
  \/ bg[c] = "running" /\ bg'[c] = "panicking"
Reports(c) == ReportsSuccess(c) \/ ReportsFailure(c)

CountFields ==
  {"Requests", "TotalSuccesses", "TotalFailures", "ConsecutiveSuccesses",
   "ConsecutiveFailures"}

\* The Closed interval, or the Open cool-off, has run out at time now.
IntervalOver == cb.state = StateClosed /\ cb.expiry # zero /\ cb.expiry < now

LastNotified == cb.notified[Len(cb.notified)]

\* The two rejections of beforeRequest.
Rejections == {ErrCircuitOpen, ErrTooManyRequests}

\* fn returned a non-nil error in this step and the entry point returned it.
ReturnsError(c) ==
  pc[c] \in {"exec", "select"} /\ pc'[c] = "returned" /\ ret'[c] = "error"

\* The pcs at which a caller's thread is inside a section under cb.mutex.
LockedPcs == {"beforeRequest", "beforeRequestCtx", "afterRequest",
              "readyToTrip"}

\* Admissions of the current generation that have not been reported yet.
InFlight ==
  {c \in Callers : pc[c] \in {"exec", "afterRequest"}
                      /\ gen[c] = cb.generation}

\* The select of c's ExecuteWithContext took its ctx.Done() case: the call
\* reported a failure and left its goroutine behind.
TokenFired(c) == bg[c] \in {"running", "panicking"} /\ pc[c] # "select"

\* The calls of afterRequest made so far for c's admission through
\* ExecuteWithContext, while its goroutine is still there: one by the select's
\* ctx.Done() case, one by the goroutine's deferred recover.
AfterRequestCalls(c) ==
  (IF TokenFired(c) THEN 1 ELSE 0) + (IF bg[c] = "panicking" THEN 1 ELSE 0)

\* -------------------------------------------------- ExecuteWithFallback
\* ExecuteWithFallback(fn, fallback) and ExecuteWithFallbackResult: Execute
\* runs first (ExecuteCall, then ExecuteReturn or ExecutePanic) and leaves
\* its error in ret[c]; the steps below are what follows "err :=
\* cb.Execute(fn)".  A panic of fn leaves Execute, and the wrapper, as a
\* panic.
Failures == Rejections \cup {"error"}

InitFallback ==
  /\ cfg \in {c \in BreakerConfigs : c.interval = 0}
  /\ now = 1
  /\ cb = New(1)
  /\ pc = [c \in Callers |-> "idle"]
  /\ ret = [c \in Callers |-> "none"]
  /\ gen = [c \in Callers |-> 0]
  /\ bg = [c \in Callers |-> "none"]
  /\ lastAdmit = 0
  /\ stale = 0
  /\ crashed = FALSE
  /\ mutex = 0
  /\ swmu = {}
  /\ AuxInit

FallbackCallOpenError(c) ==
  /\ pc[c] = "returned"
  /\ ret[c] \in Failures
  /\ pc' = [pc EXCEPT ![c] = "fallback"]
  /\ fb' = [fb EXCEPT ![c] = [arg |-> ErrCircuitOpen, out |-> "none"]]
  /\ UNCHANGED <<cfg, cb, now, ret, gen, bg, lastAdmit, crashed>>
  /\ stale' = 0
  /\ UNCHANGED <<mutex, swmu, window, hist, det, ad>>

\* "if err != nil { return fallback(err) }": the fallback is entered with
\* the error Execute returned.
FallbackCall(c) ==
  /\ pc[c] = "returned"
  /\ ret[c] \in Failures
  /\ pc' = [pc EXCEPT ![c] = "fallback"]
  /\ fb' = [fb EXCEPT ![c] = [arg |-> ret[c], out |-> "none"]]
  /\ UNCHANGED <<cfg, cb, now, ret, gen, bg, lastAdmit, crashed>>
  /\ stale' = 0
  /\ UNCHANGED <<mutex, swmu, window, hist, det, ad>>

\* The fallback returns: nil (IgnoreFallback), the error it was given
\* (ReturnErrorFallback), or an error of its own (WrapErrorFallback); the
\* wrapper returns that.
FallbackReturn(c) ==
  /\ pc[c] = "fallback"
  /\ \E out \in {"nil", fb[c].arg, "fallback error"} :
       /\ fb' = [fb EXCEPT ![c].out = out]
       /\ ret' = [ret EXCEPT ![c] = out]
  /\ pc' = [pc EXCEPT ![c] = "done"]
  /\ UNCHANGED <<cfg, cb, now, gen, bg, lastAdmit, crashed>>
  /\ stale' = 0
  /\ UNCHANGED <<mutex, swmu, window, hist, det, ad>>

\* "return nil" / "return result, nil": Execute returned nil and the
\* fallback is not called; or fn's panic goes on through the wrapper.
FallbackSkip(c) ==
  /\ pc[c] = "returned"
  /\ ret[c] \notin Failures
  /\ pc' = [pc EXCEPT ![c] = "done"]
  /\ UNCHANGED <<cfg, cb, now, ret, gen, bg, lastAdmit, crashed, fb>>
  /\ stale' = 0
  /\ UNCHANGED <<mutex, swmu, window, hist, det, ad>>

\* The caller takes what the wrapper returned.
FallbackTake(c) ==
  /\ pc[c] = "done"
  /\ pc' = [pc EXCEPT ![c] = "idle"]
  /\ ret' = [ret EXCEPT ![c] = "none"]
  /\ fb' = [fb EXCEPT ![c] = NoFallback]
  /\ UNCHANGED <<cfg, cb, now, gen, bg, lastAdmit, crashed>>
  /\ stale' = 0
  /\ UNCHANGED <<mutex, swmu, window, hist, det, ad>>

NextFallback ==
  \/ Tick
  \/ \E c \in Callers : ExecuteCall(c)
  \/ \E c \in Callers : ExecuteReturn(c)
  \/ \E c \in Callers : ExecutePanic(c)
  \/ \E c \in Callers : FallbackCall(c)
  \/ \E c \in Callers : FallbackReturn(c)
  \/ \E c \in Callers : FallbackSkip(c)
  \/ \E c \in Callers : FallbackTake(c)

SpecFallback == InitFallback /\ [][NextFallback]_vars

\* ------------------------------------------- one caller, one call at a time
\* A sequential run of Execute: caller 1 alone, each call finished before
\* the next begins.  hist is the sequence of outcomes that afterRequest was
\* given since the breaker's generation began (TRUE = fn returned nil,
\* FALSE = an error or a panic).
SeqConfigs ==
  { withDefaults([maxRequests |-> 0, interval |-> 0, timeout |-> 0,
                  tripN |-> 0, notify |-> TRUE, window |-> FALSE,
                  isSuccessful |-> "nil"]) }
  \cup {c \in BreakerConfigs : c.interval = 1}

InitSeq ==
  /\ cfg \in SeqConfigs
  /\ now = 1
  /\ cb = New(1)
  /\ pc = [c \in Callers |-> "idle"]
  /\ ret = [c \in Callers |-> "none"]
  /\ gen = [c \in Callers |-> 0]
  /\ bg = [c \in Callers |-> "none"]
  /\ lastAdmit = 0
  /\ stale = 0
  /\ crashed = FALSE
  /\ mutex = 0
  /\ swmu = {}
  /\ AuxInit

\* The outcomes of the generation after a step that left the breaker as b
\* and applied the outcomes applied (none, or one).
histAfter(b, applied) ==
  IF b.generation # cb.generation THEN <<>> ELSE hist \o applied

SeqCall ==
  /\ pc[1] = "idle"
  /\ LET r == beforeRequest(cb, now)
     IN  /\ r.cb.counts.Requests <= CountCap
         /\ cb' = r.cb
         /\ hist' = histAfter(r.cb, <<>>)
         /\ IF r.err = "nil"
            THEN /\ pc' = [pc EXCEPT ![1] = "exec"]
                 /\ gen' = [gen EXCEPT ![1] = r.cb.generation]
                 /\ lastAdmit' = r.cb.generation
                 /\ UNCHANGED ret
            ELSE /\ pc' = [pc EXCEPT ![1] = "returned"]
                 /\ ret' = [ret EXCEPT ![1] = r.err]
                 /\ UNCHANGED <<gen, lastAdmit>>
  /\ UNCHANGED <<cfg, now, bg, crashed>>
  /\ stale' = 0
  /\ UNCHANGED <<mutex, swmu, window, fb, det, ad>>

\* fn returns nil or an error, or panics; afterRequest applies the outcome
\* unless the generation has moved on.
SeqReturn ==
  /\ pc[1] = "exec"
  /\ \E out \in {"nil", "error", "panic"} :
       LET b == afterRequest(cb, gen[1], out = "nil", now)
       IN  /\ cb' = b
           /\ ret' = [ret EXCEPT ![1] = out]
           /\ hist' = histAfter(b, IF discards(cb, gen[1], now)
                                   THEN <<>> ELSE <<out = "nil">>)
  /\ pc' = [pc EXCEPT ![1] = "returned"]
  /\ gen' = [gen EXCEPT ![1] = 0]
  /\ UNCHANGED <<cfg, now, bg, lastAdmit, crashed>>
  /\ stale' = IF discards(cb, gen[1], now) THEN 1 ELSE 0
  /\ UNCHANGED <<mutex, swmu, window, fb, det, ad>>

SeqTake ==
  /\ pc[1] = "returned"
  /\ pc' = [pc EXCEPT ![1] = "idle"]
  /\ ret' = [ret EXCEPT ![1] = "none"]
  /\ UNCHANGED <<cfg, cb, now, gen, bg, lastAdmit, crashed>>
  /\ stale' = 0
  /\ UNCHANGED <<mutex, swmu, aux>>

NextSeq == Tick \/ SeqCall \/ SeqReturn \/ SeqTake

SpecSeq == InitSeq /\ [][NextSeq]_vars

\* The number of outcomes v in h, and the length of h's trailing run of v.
RECURSIVE Trailing(_, _)
Trailing(h, v) ==
  IF h = <<>> \/ h[Len(h)] # v THEN 0
  ELSE 1 + Trailing(SubSeq(h, 1, Len(h) - 1), v)
Number(h, v) == Cardinality({i \in DOMAIN h : h[i] = v})

\* ---------------------------------------------------------- SlidingWindow
\* The window by itself, its calls made one at a time.  Times and durations
\* are whole seconds.  A uint32 tally is held as a signed representative:
\* v >= 0 stands for v, v < 0 for 2^32 + v (what a subtraction below zero
\* leaves), so that + and - are the machine's and only the comparisons need
\* care.
MaxRecords == 3

DefaultWindowSize == 10
DefaultBucketCount == 10

\* a < b as uint32.
ULess(a, b) == IF (a < 0) = (b < 0) THEN a < b ELSE b < 0

\* float64(f) / float64(r) >= p / q for uint32 f, r: 0/0 is NaN, which is
\* not >= anything; f/0 is +Inf.  The high parts 2^32 are compared first.
RateAtLeast(f, r, th) ==
  IF r = 0 THEN f # 0
  ELSE LET hf == th[2] * (IF f < 0 THEN 1 ELSE 0)
           hr == th[1] * (IF r < 0 THEN 1 ELSE 0)
       IN  hf > hr \/ (hf = hr /\ th[2] * f >= th[1] * r)

NoTotal == [requests |-> 0, successes |-> 0, failures |-> 0]

NewSlidingWindow(size, numBuckets) ==
  [size |-> IF size <= 0 THEN DefaultWindowSize ELSE size,
   numBucks |-> IF numBuckets <= 0 THEN DefaultBucketCount ELSE numBuckets,
   buckets |-> <<>>, total |-> NoTotal]

\* t.Truncate(d): t rounded down to a multiple of d; t itself when d <= 0.
Truncate(t, d) == IF d <= 0 THEN t ELSE t - (t % d)

\* The number of buckets the loops of expire and expireReadOnly pass before
\* their break: the leading buckets whose start is not after now - size.
expiredPrefix(w, t) ==
  LET after == {i \in DOMAIN w.buckets :
                  w.buckets[i].startTime > t - w.size}
  IN  IF after = {} THEN Len(w.buckets)
      ELSE (CHOOSE i \in after : \A j \in after : i <= j) - 1

\* total after "sw.total.x -= bucket.x" for the first k buckets.
RECURSIVE minusBuckets(_, _, _)
minusBuckets(total, buckets, k) ==
  IF k = 0 THEN total
  ELSE minusBuckets([requests |-> total.requests - buckets[k].requests,
                     successes |-> total.successes - buckets[k].successes,
                     failures |-> total.failures - buckets[k].failures],
                    buckets, k - 1)

expire(w, t) ==
  LET k == expiredPrefix(w, t)
  IN  [w EXCEPT !.total = minusBuckets(@, w.buckets, k),
                !.buckets = SubSeq(@, k + 1, Len(@))]

\* expireReadOnly writes sw.total itself and leaves the buckets.
expireReadOnly(w, t) ==
  [w EXCEPT !.total = minusBuckets(@, w.buckets, expiredPrefix(w, t))]

getCurrentBucketAlwaysNew(w, t) ==
  LET bs == Append(w.buckets,
                   [startTime |-> Truncate(t, w.size \div w.numBucks),
                    requests |-> 0, successes |-> 0, failures |-> 0])
  IN  IF Len(bs) > w.numBucks
      THEN [w EXCEPT !.total = minusBuckets(@, bs, 1), !.buckets = Tail(bs)]
      ELSE [w EXCEPT !.buckets = bs]

getCurrentBucketUncapped(w, t) ==
  LET bucketStart == Truncate(t, w.size \div w.numBucks)
      n == Len(w.buckets)
  IN  IF n > 0 /\ w.buckets[n].startTime = bucketStart THEN w
      ELSE [w EXCEPT !.buckets =
              Append(@, [startTime |-> bucketStart, requests |-> 0,
                         successes |-> 0, failures |-> 0])]

\* The window after getCurrentBucket; the bucket it returns is the last.
getCurrentBucket(w, t) ==
  LET bucketStart == Truncate(t, w.size \div w.numBucks)
      n == Len(w.buckets)
  IN  IF n > 0 /\ w.buckets[n].startTime = bucketStart THEN w
      ELSE LET bs == Append(w.buckets,
                            [startTime |-> bucketStart, requests |-> 0,
                             successes |-> 0, failures |-> 0])
           IN  IF Len(bs) > w.numBucks
               THEN [w EXCEPT !.total = minusBuckets(@, bs, 1),
                              !.buckets = Tail(bs)]
               ELSE [w EXCEPT !.buckets = bs]

tally(c, success) ==
  [c EXCEPT !.requests = @ + 1,
            !.successes = IF success THEN @ + 1 ELSE @,
            !.failures = IF success THEN @ ELSE @ + 1]

windowRecord(w, success, t) ==
  LET w1 == getCurrentBucket(expire(w, t), t)
      n == Len(w1.buckets)
  IN  [w1 EXCEPT !.buckets[n] = tally(@, success),
                 !.total = tally(@, success)]

\* The function MakeReadyToTrip returns, on what GetCounts returned.
makeReadyToTrip(minRequests, thresh, requests, failures) ==
  IF ULess(requests, minRequests) THEN FALSE
  ELSE RateAtLeast(failures, requests, thresh)

\* The arguments of NewSlidingWindow, and the SlidingWindowConfigs that
\* MakeReadyToTrip is called on (the threshold as numerator, denominator).
WindowArgs == {<<0, 0>>, <<1, 1>>, <<2, 1>>, <<2, 2>>, <<3, 2>>}
SlidingWindowConfigs ==
  [MinRequests : {0, 2}, FailureRateThresh : {<<0, 1>>, <<1, 2>>}]

InitWindow ==
  /\ cfg = WindowConfig
  /\ now = 1
  /\ cb = New(1)
  /\ pc = [c \in Callers |-> "idle"]
  /\ ret = [c \in Callers |-> "none"]
  /\ gen = [c \in Callers |-> 0]
  /\ bg = [c \in Callers |-> "none"]
  /\ lastAdmit = 0
  /\ stale = 0
  /\ crashed = FALSE
  /\ mutex = 0
  /\ swmu = {}
  /\ \E a \in WindowArgs : sw = NewSlidingWindow(a[1], a[2])
  /\ swRead = NoRead /\ swLog = <<>> /\ hist = <<>>
  /\ fb = [c \in Callers |-> NoFallback]
  /\ det = NoDetector
  /\ ad = [c \in Callers |-> NoRequest]

breaker == <<cfg, cb, pc, ret, gen, bg, lastAdmit, stale, crashed, mutex,
             swmu, hist, fb, ad>>

Record ==
  /\ Len(swLog) < MaxRecords
  /\ \E success \in BOOLEAN :
       /\ sw' = windowRecord(sw, success, now)
       /\ swLog' = Append(swLog, <<now, success>>)
  /\ swRead' = NoRead
  /\ UNCHANGED <<now, breaker, det>>

\* A read is followed while no tally has wrapped more than MaxRecords below
\* zero.
GetCounts ==
  LET w == expireReadOnly(sw, now)
  IN  /\ w.total.requests >= -MaxRecords
      /\ sw' = w
      /\ swRead' = [NoRead EXCEPT !.op = "GetCounts", !.at = now,
                                  !.requests = w.total.requests,
                                  !.successes = w.total.successes,
                                  !.failures = w.total.failures]
      /\ UNCHANGED <<now, swLog, breaker, det>>

\* A call of the function made by c.MakeReadyToTrip(sw), for some
\* SlidingWindowConfig c and some Counts argument.
ReadyToTripCall ==
  LET w == expireReadOnly(sw, now)
  IN  /\ w.total.requests >= -MaxRecords
      /\ sw' = w
      /\ \E c \in SlidingWindowConfigs, arg \in {0, 1} :
           swRead' = [op |-> "ReadyToTrip", at |-> now,
                      requests |-> w.total.requests,
                      successes |-> w.total.successes,
                      failures |-> w.total.failures,
                      minRequests |-> c.MinRequests,
                      thresh |-> c.FailureRateThresh, arg |-> arg,
                      trip |-> makeReadyToTrip(c.MinRequests,
                                               c.FailureRateThresh,
                                               w.total.requests,
                                               w.total.failures)]
      /\ UNCHANGED <<now, swLog, breaker, det>>

Reset ==
  /\ sw' = [sw EXCEPT !.buckets = <<>>, !.total = NoTotal]
  /\ swLog' = <<>>
  /\ swRead' = NoRead
  /\ UNCHANGED <<now, breaker, det>>

NextWindow == Tick \/ Record \/ GetCounts \/ ReadyToTripCall \/ Reset

SpecWindow == InitWindow /\ [][NextWindow]_vars

\* The Records since the window was new or Reset that are younger than the
\* window's size at time t, and the tallies they make.
InWindow(t) ==
  LET younger == {i \in DOMAIN swLog : swLog[i][1] > t - sw.size}
  IN  [requests |-> Cardinality(younger),
       successes |-> Cardinality({i \in younger : swLog[i][2]}),
       failures |-> Cardinality({i \in younger : ~swLog[i][2]})]

\* What the read swRead returned.
ReadCounts(r) ==
  [requests |-> r.requests, successes |-> r.successes,
   failures |-> r.failures]

\* A read of the window in this step (Record and Reset forget the last
\* read, the clock leaves it).
ReadStep == now' = now /\ swLog' = swLog /\ swRead'.op # "none"

\* The start of the bucket that time t falls into.
BucketStart(t) == Truncate(t, sw.size \div sw.numBucks)

\* The time of the latest Record.
LastRecord == swLog[Len(swLog)][1]

\* The sum of the retained buckets that are valid at time t (start strictly
\* after t - size).
RECURSIVE sumValid(_, _, _)
sumValid(buckets, k, from) ==
  IF k = 0 THEN NoTotal
  ELSE LET rest == sumValid(buckets, k - 1, from)
           b == buckets[k]
       IN  IF b.startTime > from
           THEN [requests |-> rest.requests + b.requests,
                 successes |-> rest.successes + b.successes,
                 failures |-> rest.failures + b.failures]
           ELSE rest
ValidTotal(t) == sumValid(sw.buckets, Len(sw.buckets), t - sw.size)

\* ------------------------------------------------------- SlowCallDetector
\* The detector by itself, its calls made one at a time (it has no lock).
\* Durations are whole seconds, the rate threshold is <<numerator,
\* denominator>>.  The configurations are in the documented range of the
\* threshold, 0.0 to 1.0.
\* A zero SlowCallDuration becomes 5 s, a zero threshold 0.5.
NewSlowCallDetector(config) ==
  [duration |-> IF config.SlowCallDuration = 0
                THEN 5 ELSE config.SlowCallDuration,
   thresh |-> IF config.SlowCallRateThreshold[1] = 0
              THEN <<1, 2>> ELSE config.SlowCallRateThreshold,
   slowCalls |-> 0, totalCalls |-> 0, log |-> <<>>, trip |-> <<>>]

detectorRecordAtThreshold(d, duration) ==
  [d EXCEPT !.totalCalls = @ + 1,
            !.slowCalls = IF duration >= d.duration THEN @ + 1 ELSE @]

detectorRecord(d, duration) ==
  [d EXCEPT !.totalCalls = @ + 1,
            !.slowCalls = IF duration > d.duration THEN @ + 1 ELSE @]

\* SlowCallRate() >= SlowCallRateThreshold, the rate being 0.0 when
\* totalCalls is 0.
shouldTrip(d) ==
  IF d.totalCalls = 0 THEN 0 >= d.thresh[1]
  ELSE d.slowCalls * d.thresh[2] >= d.thresh[1] * d.totalCalls

InitDetector ==
  /\ cfg = WindowConfig
  /\ now = 1
  /\ cb = New(1)
  /\ pc = [c \in Callers |-> "idle"]
  /\ ret = [c \in Callers |-> "none"]
  /\ gen = [c \in Callers |-> 0]
  /\ bg = [c \in Callers |-> "none"]
  /\ lastAdmit = 0
  /\ stale = 0
  /\ crashed = FALSE
  /\ mutex = 0
  /\ swmu = {}
  /\ sw = NoWindow /\ swRead = NoRead /\ swLog = <<>> /\ hist = <<>>
  /\ fb = [c \in Callers |-> NoFallback]
  /\ \E config \in [SlowCallDuration : {0, 1},
                      SlowCallRateThreshold : {<<0, 1>>, <<1, 2>>, <<1, 1>>}] :
       det = NewSlowCallDetector(config)
  /\ ad = [c \in Callers |-> NoRequest]

DetectorRecord ==
  /\ Len(det.log) < MaxRecords
  /\ \E duration \in {0, 1, 2, 5, 6} :
       det' = [detectorRecord(det, duration) EXCEPT
                 !.log = Append(@, duration), !.trip = <<>>]
  /\ UNCHANGED <<now, breaker, window>>

DetectorShouldTrip ==
  /\ det' = [det EXCEPT !.trip = <<shouldTrip(det)>>]
  /\ UNCHANGED <<now, breaker, window>>

DetectorReset ==
  /\ det' = [det EXCEPT !.slowCalls = 0, !.totalCalls = 0,
                        !.log = <<>>, !.trip = <<>>]
  /\ UNCHANGED <<now, breaker, window>>

NextDetector == DetectorRecord \/ DetectorShouldTrip \/ DetectorReset

SpecDetector == InitDetector /\ [][NextDetector]_vars

\* ---------------------------------------------------------------- adapters
\* A request through one of the adapters, each built with a Metrics sink
\* and the default OnCircuitOpen.  ad[c].at is "execute" from the adapter's
\* entry (after the State() pre-check, where it has one) to the return of
\* Execute, and "done" once the adapter has returned; refused is the
\* rejection the request met, response what the adapter wrote or returned
\* for it ("none": nothing written), metrics the calls made on the sink.
Adapters ==
  {"HTTPMiddleware", "RoundTripper", "HTTPClient", "UnaryClientInterceptor",
   "StreamClientInterceptor", "UnaryServerInterceptor"}

\* The adapters that call Breaker.State() before Execute.
PreChecked == {"HTTPMiddleware", "UnaryServerInterceptor"}

\* The calls on the Metrics after Execute returned err.
metricsAfter(adapter, err) ==
  CASE adapter \in {"HTTPMiddleware", "RoundTripper", "HTTPClient"} ->
         IF err = "nil" THEN <<"RecordSuccess", "RecordDuration">>
         ELSE IF err = ErrCircuitOpen THEN <<"RecordRejection">>
         ELSE <<"RecordFailure", "RecordDuration">>
    [] adapter \in {"UnaryClientInterceptor", "StreamClientInterceptor"} ->
         IF err \in Rejections THEN <<"RecordRejection">>
         ELSE IF err = "nil" THEN <<"RecordSuccess">>
         ELSE <<"RecordFailure">>
    [] adapter = "UnaryServerInterceptor" ->
         IF err = "nil" THEN <<"RecordSuccess">> ELSE <<"RecordFailure">>

\* What the adapter writes or returns after Execute returned err.  The
\* HTTP middleware writes nothing itself: the response is the handler's
\* when the handler ran, and none when Execute refused.
responseAfter(adapter, err) ==
  CASE adapter = "HTTPMiddleware" ->
         IF err \in Rejections THEN "none" ELSE "handler"
    [] adapter \in {"UnaryClientInterceptor", "StreamClientInterceptor"} ->
         IF err = ErrCircuitOpen THEN "codes.Unavailable"
         ELSE IF err = ErrTooManyRequests THEN "codes.ResourceExhausted"
         ELSE err
    [] OTHER -> err

InitAdapter ==
  /\ cfg \in {c \in BreakerConfigs : c.interval = 0}
  /\ now = 1
  /\ cb = New(1)
  /\ pc = [c \in Callers |-> "idle"]
  /\ ret = [c \in Callers |-> "none"]
  /\ gen = [c \in Callers |-> 0]
  /\ bg = [c \in Callers |-> "none"]
  /\ lastAdmit = 0
  /\ stale = 0
  /\ crashed = FALSE
  /\ mutex = 0
  /\ swmu = {}
  /\ AuxInit

\* The adapter is entered; the pre-checked ones call State() and, on
\* StateOpen, record the rejection, answer and return.
AdapterEnter(c) ==
  /\ Free(c)
  /\ ad[c].at # "execute"
  /\ \E a \in Adapters :
       LET b == IF a \in PreChecked THEN currentState(cb, now) ELSE cb
       IN  /\ cb' = b
           /\ ad' = [ad EXCEPT ![c] =
                IF a \in PreChecked /\ b.state = StateOpen
                THEN [adapter |-> a, at |-> "done",
                      refused |-> ErrCircuitOpen,
                      response |-> IF a = "HTTPMiddleware"
                                   THEN "503 Retry-After"
                                   ELSE "codes.Unavailable",
                      metrics |-> <<"RecordRejection">>]
                ELSE [NoRequest EXCEPT !.adapter = a, !.at = "execute"]]
  /\ UNCHANGED <<cfg, now, pc, ret, gen, bg, lastAdmit, crashed>>
  /\ stale' = 0
  /\ UNCHANGED <<mutex, swmu, window, hist, fb, det>>

\* Execute has returned: the metrics are recorded and the adapter returns.
AdapterReturn(c) ==
  /\ pc[c] = "returned"
  /\ ad[c].at = "execute"
  /\ ad' = [ad EXCEPT ![c] =
        [@ EXCEPT !.at = "done",
                  !.refused = IF ret[c] \in Rejections THEN ret[c]
                              ELSE "none",
                  !.response = responseAfter(ad[c].adapter, ret[c]),
                  !.metrics = metricsAfter(ad[c].adapter, ret[c])]]
  /\ pc' = [pc EXCEPT ![c] = "idle"]
  /\ ret' = [ret EXCEPT ![c] = "none"]
  /\ UNCHANGED <<cfg, cb, now, gen, bg, lastAdmit, crashed>>
  /\ stale' = 0
  /\ UNCHANGED <<mutex, swmu, window, hist, fb, det>>

NextAdapter ==
  \/ Tick
  \/ \E c \in Callers : AdapterEnter(c)
  \/ \E c \in Callers : ad[c].at = "execute" /\ ExecuteCall(c)
  \/ \E c \in Callers : ExecuteReturn(c)
  \/ \E c \in Callers : AdapterReturn(c)

SpecAdapter == InitAdapter /\ [][NextAdapter]_vars

\* ------------------------------------------------ SlidingWindow, by lock
\* The window under concurrent callers, sw.mu taken and released as the
\* code does: swmu is the set of threads holding it, a thread at "locked"
\* holds it exclusively (Record), the threads at "loaded" and "stored" hold
\* it as readers (GetCounts).  expireReadOnly's "sw.total.x -= bucket.x" is
\* a load and a store of sw.total that other readers can come between:
\* ret[c] is what reader c has loaded, with the now it took.
InitWindowLock ==
  /\ cfg = WindowConfig
  /\ now = 1
  /\ cb = New(1)
  /\ pc = [c \in Callers |-> "idle"]
  /\ ret = [c \in Callers |-> "none"]
  /\ gen = [c \in Callers |-> 0]
  /\ bg = [c \in Callers |-> "none"]
  /\ lastAdmit = 0
  /\ stale = 0
  /\ crashed = FALSE
  /\ mutex = 0
  /\ swmu = {}
  /\ \E a \in {<<1, 1>>, <<2, 2>>} : sw = NewSlidingWindow(a[1], a[2])
  /\ swRead = NoRead /\ swLog = <<>> /\ hist = <<>>
  /\ fb = [c \in Callers |-> NoFallback]
  /\ det = NoDetector
  /\ ad = [c \in Callers |-> NoRequest]

\* What the steps of the window's threads leave alone.
apart == <<cfg, cb, now, gen, bg, lastAdmit, stale, crashed, mutex, hist,
           fb, det, ad>>

\* sw.mu.Lock() of Record: no other holder.
WriterLock(c) ==
  /\ pc[c] = "idle" /\ swmu = {}
  /\ Len(swLog) < MaxRecords
  /\ swmu' = {c}
  /\ pc' = [pc EXCEPT ![c] = "locked"]
  /\ UNCHANGED <<apart, ret, window>>

\* The body of Record and the deferred sw.mu.Unlock().
WriterUnlock(c) ==
  /\ pc[c] = "locked"
  /\ \E success \in BOOLEAN :
       /\ sw' = windowRecord(sw, success, now)
       /\ swLog' = Append(swLog, <<now, success>>)
  /\ swRead' = NoRead
  /\ swmu' = swmu \ {c}
  /\ pc' = [pc EXCEPT ![c] = "idle"]
  /\ UNCHANGED <<apart, ret>>

\* sw.mu.RLock() of GetCounts (no exclusive holder), time.Now(), and the
\* load of sw.total in expireReadOnly.
ReaderLoad(c) ==
  /\ pc[c] = "idle"
  /\ \A d \in swmu : pc[d] # "locked"
  /\ swmu' = swmu \cup {c}
  /\ ret' = [ret EXCEPT ![c] = [total |-> sw.total, at |-> now]]
  /\ pc' = [pc EXCEPT ![c] = "loaded"]
  /\ UNCHANGED <<apart, window>>

\* The store of sw.total in expireReadOnly: what was loaded, less the
\* expired buckets.  It is followed while no tally has wrapped more than
\* MaxRecords below zero.
ReaderStore(c) ==
  /\ pc[c] = "loaded"
  /\ LET total == minusBuckets(ret[c].total, sw.buckets,
                                expiredPrefix(sw, ret[c].at))
     IN  /\ total.requests >= -MaxRecords
         /\ sw' = [sw EXCEPT !.total = total]
  /\ pc' = [pc EXCEPT ![c] = "stored"]
  /\ UNCHANGED <<apart, ret, swmu, swRead, swLog>>

\* "return sw.total.requests, ..." and the deferred sw.mu.RUnlock().
ReaderReturn(c) ==
  /\ pc[c] = "stored"
  /\ swRead' = [NoRead EXCEPT !.op = "GetCounts", !.at = ret[c].at,
                              !.requests = sw.total.requests,
                              !.successes = sw.total.successes,
                              !.failures = sw.total.failures]
  /\ ret' = [ret EXCEPT ![c] = "none"]
  /\ swmu' = swmu \ {c}
  /\ pc' = [pc EXCEPT ![c] = "idle"]
  /\ UNCHANGED <<apart, sw, swLog>>

NextWindowLock ==
  \/ TickUnlocked
  \/ \E c \in Callers : WriterLock(c)
  \/ \E c \in Callers : WriterUnlock(c)
  \/ \E c \in Callers : ReaderLoad(c)
  \/ \E c \in Callers : ReaderStore(c)
  \/ \E c \in Callers : ReaderReturn(c)

SpecWindowLock == InitWindowLock /\ [][NextWindowLock]_vars

\* ----------------------------------------------------------------- claims

\* C1: an outcome reported with a token older than the breaker's generation
\* is not applied: no counter grows, the state changes only by the lazy
\* Open -> Half-Open move of the effective-state read, and a breaker that is
\* Open with its cool-off still running is left exactly as it was.
C1_GenerationDiscard ==
  [][\A c \in Callers :
       (Reports(c) /\ gen[c] < cb.generation) =>
          /\ \A f \in CountFields : cb'.counts[f] <= cb.counts[f]
          /\ \/ cb'.state = cb.state
             \/ cb.state = StateOpen /\ cb'.state = StateHalfOpen
          /\ (cb.state = StateOpen /\ now <= cb.expiry) => cb' = cb
          /\ cb'.generation = cb.generation => cb' = cb]_vars

\* A success admitted in Closed has just been discarded by an Open breaker.
C1_Witness ==
  \E c \in Callers :
     /\ stale = c /\ pc[c] = "returned" /\ ret[c] = "nil"
     /\ cb.state = StateOpen /\ cb.counts.TotalSuccesses = 0

\* C2: TotalSuccesses + TotalFailures <= Requests in every reachable state.
C2_CountsWithinRequests ==
  cb.counts.TotalSuccesses + cb.counts.TotalFailures <= cb.counts.Requests

\* C3: ConsecutiveSuccesses and ConsecutiveFailures are never both non-zero.
C3_OneRunAtATime ==
  cb.counts.ConsecutiveSuccesses = 0 \/ cb.counts.ConsecutiveFailures = 0

\* A failure has ended a run of successes.
C3_Witness ==
  /\ cb.counts.TotalSuccesses >= 1
  /\ cb.counts.ConsecutiveFailures >= 1
  /\ cb.counts.ConsecutiveSuccesses = 0

\* C4: the generation grows by exactly 1 with each state change and each
\* rollover in Closed and is unchanged otherwise, and the tokens handed to
\* admitted invocations never decrease in admission order.
C4_GenerationMonotone ==
  [][/\ cb'.generation \in {cb.generation, cb.generation + 1}
     /\ cb'.state # cb.state => cb'.generation = cb.generation + 1
     /\ (cb'.state = cb.state /\ cb'.generation # cb.generation) =>
           IntervalOver /\ cfg.interval > 0
     /\ \A c \in Callers :
          /\ (IntervalOver /\ (Attempt(c) \/ Reports(c))) =>
                /\ cb'.state = StateClosed
                /\ cb'.generation = cb.generation + 1
          /\ Admitted(c) =>
                /\ gen'[c] = cb'.generation
                /\ gen'[c] >= lastAdmit
                /\ \A d \in Callers : gen[d] <= gen'[c]]_vars

\* An invocation admitted in the first generation is still in flight after a
\* later one was admitted in a later generation.
C4_Witness ==
  /\ \E c \in Callers : pc[c] \in {"exec", "select"} /\ gen[c] = 1
  /\ lastAdmit > 1
  /\ cb.generation > lastAdmit

\* C5: with a notifier configured, its calls are the state transitions, each
\* once and in order: a step that changes the state appends (previous, new),
\* any other step (rollover, rejection, discarded outcome) appends nothing,
\* and the calls chain from Closed to the current state.
C5_NotifierFollowsTransitions ==
  /\ [](cfg.notify =>
          /\ \A i \in 1..Len(cb.notified) :
               /\ cb.notified[i][1] # cb.notified[i][2]
               /\ cb.notified[i][1] =
                    (IF i = 1 THEN StateClosed ELSE cb.notified[i - 1][2])
          /\ cb.state = (IF cb.notified = <<>> THEN StateClosed
                         ELSE LastNotified[2]))
  /\ [][cfg.notify =>
          /\ cb'.state # cb.state =>
                cb'.notified = Append(cb.notified, <<cb.state, cb'.state>>)
          /\ cb'.state = cb.state => cb'.notified = cb.notified]_vars

\* The notifier has seen a trip, the probe entry and the recovery.
C5_Witness ==
  cb.notified = << <<StateClosed, StateOpen>>, <<StateOpen, StateHalfOpen>>,
                   <<StateHalfOpen, StateClosed>> >>

\* C6: a failure applied in Closed counts (TotalFailures and
\* ConsecutiveFailures + 1, ConsecutiveSuccesses = 0) and trips to Open, in a
\* new generation with zero counts and expiry = now + Timeout, exactly when the
\* trip predicate holds of the counts that include it.
C6_ClosedFailure ==
  [][\A c \in Callers :
       (/\ ReportsFailure(c) /\ gen[c] = cb.generation
        /\ cb.state = StateClosed /\ ~IntervalOver) =>
          LET counted == [cb.counts EXCEPT
                            !.TotalFailures = @ + 1,
                            !.ConsecutiveFailures = @ + 1,
                            !.ConsecutiveSuccesses = 0]
          IN  IF counted.ConsecutiveFailures >= cfg.tripN
              THEN /\ cb'.state = StateOpen
                   /\ cb'.generation = cb.generation + 1
                   /\ cb'.counts = ZeroCounts
                   /\ cb'.expiry = now + cfg.timeout
              ELSE /\ cb'.state = StateClosed
                   /\ cb'.generation = cb.generation
                   /\ cb'.counts = counted
                   /\ cb'.expiry = cb.expiry]_vars

\* The second consecutive failure has just tripped a breaker whose predicate
\* is ConsecutiveFailures >= 2.
C6_Witness ==
  /\ cfg.tripN = 2
  /\ cb.state = StateOpen /\ cb.generation = 2
  /\ cb.expiry = now + cfg.timeout
  /\ \E c \in Callers : pc[c] = "returned" /\ ret[c] = "error" /\ stale = 0

\* C7: while Open with now before the expiry, every call of an entry point is
\* rejected with ErrCircuitOpen, starts no work and leaves the breaker as is.
C7_OpenRejects ==
  [][\A c \in Callers :
       (Attempt(c) /\ cb.state = StateOpen /\ now < cb.expiry) =>
          Rejected(c, ErrCircuitOpen) /\ cb' = cb]_vars

C7_Witness ==
  \E c \in Callers :
     /\ pc[c] = "returned" /\ ret[c] = ErrCircuitOpen
     /\ cb.state = StateOpen /\ now < cb.expiry

\* C8 as claimed: an admission on an Open breaker at any now >= expiry moves
\* it to Half-Open and is admitted; "circuit open" only when now < expiry.
C8_AsClaimed ==
  [][\A c \in Callers :
       /\ (Attempt(c) /\ cb.state = StateOpen /\ now >= cb.expiry) =>
             /\ Admitted(c)
             /\ cb'.state = StateHalfOpen
             /\ cb'.generation = cb.generation + 1
             /\ cb'.expiry = zero
             /\ cb'.counts.Requests = 1
       /\ (Attempt(c) /\ ret'[c] = ErrCircuitOpen) => now < cb.expiry]_vars

\* C8 amended: an admission on an Open breaker at an instant strictly after
\* the expiry moves it to Half-Open (new generation, expiry zero) and is
\* admitted with Requests = 1; at now <= expiry, the expiry instant included,
\* it is rejected with ErrCircuitOpen.
C8_OpenExpiry ==
  [][\A c \in Callers :
       /\ (Attempt(c) /\ cb.state = StateOpen /\ now > cb.expiry) =>
             /\ Admitted(c)
             /\ cb'.state = StateHalfOpen
             /\ cb'.generation = cb.generation + 1
             /\ cb'.expiry = zero
             /\ cb'.counts = [ZeroCounts EXCEPT !.Requests = 1]
       /\ (Attempt(c) /\ cb.state = StateOpen /\ now <= cb.expiry) =>
             Rejected(c, ErrCircuitOpen) /\ cb' = cb
       /\ (Attempt(c) /\ ret'[c] = ErrCircuitOpen) =>
             cb.state = StateOpen /\ now <= cb.expiry]_vars

\* The admission that moved the breaker to Half-Open is in flight as its
\* first probe.
C8_Witness ==
  /\ cb.state = StateHalfOpen
  /\ cb.counts = [ZeroCounts EXCEPT !.Requests = 1]
  /\ cb.notified # <<>> /\ LastNotified = <<StateOpen, StateHalfOpen>>
  /\ \E c \in Callers : pc[c] \in {"exec", "select"} /\ gen[c] = cb.generation

\* C9: in Half-Open, Requests <= MaxRequests and at most MaxRequests
\* invocations hold the generation's token; once Requests has reached
\* MaxRequests a call is rejected with ErrTooManyRequests, starts no work and
\* leaves the breaker as is.
C9_ProbeBudget ==
  /\ [](cb.state = StateHalfOpen =>
          /\ cb.counts.Requests <= cfg.maxRequests
          /\ Cardinality({c \in Callers : gen[c] = cb.generation})
               <= cfg.maxRequests)
  /\ [][\A c \in Callers :
          (/\ Attempt(c) /\ cb.state = StateHalfOpen
           /\ cb.counts.Requests >= cfg.maxRequests) =>
             Rejected(c, ErrTooManyRequests) /\ cb' = cb]_vars

\* A call was rejected after both probes of the budget had been admitted and
\* one of them had completed.
C9_Witness ==
  /\ cfg.maxRequests = 2
  /\ cb.state = StateHalfOpen /\ cb.counts.Requests = 2
  /\ cb.counts.TotalSuccesses = 1
  /\ \E c \in Callers : pc[c] = "returned" /\ ret[c] = ErrTooManyRequests

\* C10: a success applied in Half-Open counts and closes the breaker (new
\* generation, zero counts) exactly when ConsecutiveSuccesses reaches
\* MaxRequests; Half-Open -> Closed happens at no other step, hence only when
\* MaxRequests probes were admitted and all of them succeeded.
C10_HalfOpenSuccess ==
  [][/\ \A c \in Callers :
          (/\ ReportsSuccess(c) /\ gen[c] = cb.generation
           /\ cb.state = StateHalfOpen) =>
             LET counted == [cb.counts EXCEPT
                               !.TotalSuccesses = @ + 1,
                               !.ConsecutiveSuccesses = @ + 1,
                               !.ConsecutiveFailures = 0]
             IN  IF counted.ConsecutiveSuccesses >= cfg.maxRequests
                 THEN /\ cb'.state = StateClosed
                      /\ cb'.generation = cb.generation + 1
                      /\ cb'.counts = ZeroCounts
                 ELSE /\ cb'.state = StateHalfOpen
                      /\ cb'.generation = cb.generation
                      /\ cb'.counts = counted
     /\ (cb.state = StateHalfOpen /\ cb'.state = StateClosed) =>
           /\ \E c \in Callers : ReportsSuccess(c) /\ gen[c] = cb.generation
           /\ cb.counts.Requests = cfg.maxRequests
           /\ cb.counts.TotalSuccesses = cfg.maxRequests - 1
           /\ cb.counts.TotalFailures = 0]_vars

\* Two probes were admitted and both succeeded: the breaker has closed.
C10_Witness ==
  /\ cfg.maxRequests = 2
  /\ cb.state = StateClosed /\ cb.counts = ZeroCounts
  /\ cb.notified # <<>> /\ LastNotified = <<StateHalfOpen, StateClosed>>
  /\ \A c \in Callers : pc[c] = "returned" /\ ret[c] = "nil"

\* C11: a failure applied in Half-Open (token matching) opens the breaker
\* whatever the counts and the trip predicate say: new generation, zero
\* counts, expiry = now + Timeout, and the notifier is told Half-Open -> Open.
C11_HalfOpenFailure ==
  [][\A c \in Callers :
       (/\ ReportsFailure(c) /\ gen[c] = cb.generation
        /\ cb.state = StateHalfOpen) =>
          /\ cb'.state = StateOpen
          /\ cb'.generation = cb.generation + 1
          /\ cb'.counts = ZeroCounts
          /\ cb'.expiry = now + cfg.timeout
          /\ cfg.notify =>
                cb'.notified =
                  Append(cb.notified, <<StateHalfOpen, StateOpen>>)]_vars

\* One probe succeeded, the next one failed, with a trip predicate that asks
\* for two failures in a row: the breaker is Open again.
C11_Witness ==
  /\ cfg.maxRequests = 2 /\ cfg.tripN = 2
  /\ cb.state = StateOpen /\ cb.counts = ZeroCounts
  /\ cb.expiry = now + cfg.timeout
  /\ cb.notified # <<>> /\ LastNotified = <<StateHalfOpen, StateOpen>>
  /\ \E c, d \in Callers :
        /\ pc[c] = "returned" /\ ret[c] = "nil"
        /\ pc[d] = "returned" /\ ret[d] = "error" /\ stale = 0
        /\ lastAdmit = cb.generation - 1

\* C12: when the token fires before the work is done, ExecuteWithContext
\* returns ctx.Err(), and the invocation counts as exactly one failure: the
\* step applies one failure (it trips Closed when the predicate says so and
\* reopens Half-Open), nothing was reported for the invocation before, and
\* nothing its goroutine does afterwards touches the breaker.
C12_TokenFireOneFailure ==
  [][\A c \in Callers :
       /\ (/\ pc[c] = "select" /\ pc'[c] = "returned"
           /\ bg'[c] = bg[c] /\ bg[c] # "none") =>
             /\ ret'[c] = "ctx.Err()"
             /\ AfterRequestCalls(c) = 0
             /\ (gen[c] = cb.generation /\ ~IntervalOver) =>
                   LET counted == countFailure(cb.counts)
                   IN  CASE cb.state = StateClosed /\ ~readyToTrip(counted) ->
                              cb' = [cb EXCEPT !.counts = counted]
                         [] cb.state = StateClosed /\ readyToTrip(counted) ->
                              /\ cb'.state = StateOpen
                              /\ cb'.generation = cb.generation + 1
                         [] cb.state = StateHalfOpen ->
                              /\ cb'.state = StateOpen
                              /\ cb'.generation = cb.generation + 1
                         [] OTHER -> FALSE
       /\ (TokenFired(c) /\ bg'[c] # bg[c]) => cb' = cb]_vars

\* C13: afterRequest is called at most once for an admission through
\* ExecuteWithContext.
C13_AfterRequestOnce == \A c \in Callers : AfterRequestCalls(c) <= 1

\* C15: with a classifier configured that returns true for the error the work
\* returns, the invocation is reported as a success: in Closed, with the token
\* matching, the success counters grow and the breaker does not trip.
C15_ClassifierHonoured ==
  [][\A c \in Callers :
       (/\ ReturnsError(c) /\ cfg.isSuccessful = "accepts"
        /\ gen[c] = cb.generation /\ cb.state = StateClosed
        /\ ~IntervalOver) =>
          cb' = [cb EXCEPT !.counts = countSuccess(@)]]_vars

\* C16, as claimed: a completion whose token is older than the breaker's
\* generation leaves the breaker as it was and fires no notifier, whatever
\* the state and the time.
C16_AsClaimed ==
  [][\A c \in Callers :
       (Reports(c) /\ gen[c] < cb.generation) => cb' = cb]_vars

\* C16, amended: a completion whose token does not match never applies its
\* outcome, but its read of the effective state still makes the move that is
\* due: Open -> Half-Open once now is past the expiry (new generation, zero
\* counts, notifier told), the rollover of Closed once the interval is over
\* (new generation, zero counts, next expiry, no notifier); otherwise the
\* breaker is left exactly as it was.
C16_StaleCompletion ==
  [][\A c \in Callers :
       (Reports(c) /\ (gen[c] < cb.generation \/ IntervalOver)) =>
          IF cb.state = StateOpen /\ cb.expiry < now
          THEN cb' = [state |-> StateHalfOpen,
                      generation |-> cb.generation + 1,
                      counts |-> ZeroCounts, expiry |-> zero,
                      notified |->
                        IF cfg.notify
                        THEN Append(cb.notified, <<StateOpen, StateHalfOpen>>)
                        ELSE cb.notified]
          ELSE IF IntervalOver
          THEN cb' = [cb EXCEPT !.generation = @ + 1, !.counts = ZeroCounts,
                                !.expiry = now + cfg.interval]
          ELSE cb' = cb]_vars

\* A discarded completion has just found the breaker in Half-Open with
\* nothing admitted since the cool-off ended.
C16_Witness ==
  \E c \in Callers :
     /\ stale = c /\ pc[c] = "returned" /\ ret[c] \in {"nil", "error"}
     /\ cb.state = StateHalfOpen /\ cb.counts = ZeroCounts
     /\ cb.notified # <<>> /\ LastNotified = <<StateOpen, StateHalfOpen>>
     /\ lastAdmit < cb.generation - 1

\* C17, as claimed: the last clause for all five counters, no step but one
\* that enters a new generation lowers any of them.
C17_AsClaimed ==
  [][\A f \in CountFields :
       cb'.counts[f] < cb.counts[f] => cb'.generation > cb.generation]_vars

\* C17, amended: an admission adds one to Requests and touches no other
\* counter; a rejected attempt leaves the breaker as it was, starts no work
\* and is never reported; within a generation Requests, TotalSuccesses and
\* TotalFailures never go down, and a Consecutive counter goes down only to
\* zero, when the opposite outcome is applied.
C17_RequestsOncePerAdmission ==
  /\ [](\A c \in Callers :
          ret[c] \in Rejections =>
             pc[c] = "returned" /\ bg[c] = "none" /\ gen[c] = 0)
  /\ [][/\ \A c \in Callers :
            /\ Admitted(c) =>
                 cb'.counts =
                   IF cb'.generation = cb.generation
                   THEN [cb.counts EXCEPT !.Requests = @ + 1]
                   ELSE [ZeroCounts EXCEPT !.Requests = 1]
            /\ (Attempt(c) /\ ~Admitted(c)) =>
                 /\ ret'[c] \in Rejections
                 /\ cb' = cb /\ bg'[c] = bg[c] /\ gen'[c] = gen[c]
            /\ ret[c] \in Rejections => ~Reports(c)
        /\ cb'.generation = cb.generation =>
            /\ \A f \in {"Requests", "TotalSuccesses", "TotalFailures"} :
                 cb'.counts[f] >= cb.counts[f]
            /\ cb'.counts.Requests > cb.counts.Requests =>
                 \E c \in Callers : Admitted(c)
            /\ cb'.counts.ConsecutiveSuccesses
                  < cb.counts.ConsecutiveSuccesses =>
                 /\ cb'.counts.ConsecutiveSuccesses = 0
                 /\ \E c \in Callers : ReportsFailure(c)
            /\ cb'.counts.ConsecutiveFailures
                  < cb.counts.ConsecutiveFailures =>
                 /\ cb'.counts.ConsecutiveFailures = 0
                 /\ \E c \in Callers : ReportsSuccess(c)]_vars

\* An attempt was rejected by an Open breaker while an earlier admission is
\* still running, and a failure has ended a run of successes before.
C17_Witness ==
  \E c, d \in Callers :
     /\ pc[c] = "returned" /\ ret[c] = ErrCircuitOpen
     /\ pc[d] \in {"exec", "select"} /\ gen[d] < cb.generation
     /\ cb.state = StateOpen /\ cb.counts = ZeroCounts

\* C14: a panic of the work inside Execute is reported once, as a failure,
\* and passed on to the caller with the mutex released. In every state the
\* counters add up (every admission of the generation is either still in
\* flight or counted once, so TotalSuccesses + TotalFailures <= Requests),
\* the two Consecutive counters are not both non-zero, and the mutex is held
\* only by a thread inside beforeRequest or afterRequest; the step that ends
\* a panicked invocation applies one failure under the admission's token,
\* returns the panic and leaves the mutex free.
C14_PanicInExecute ==
  /\ [](/\ cb.counts.Requests
            = cb.counts.TotalSuccesses + cb.counts.TotalFailures
              + Cardinality(InFlight)
        /\ cb.counts.TotalSuccesses + cb.counts.TotalFailures
             <= cb.counts.Requests
        /\ cb.counts.ConsecutiveSuccesses = 0
             \/ cb.counts.ConsecutiveFailures = 0
        /\ \A c \in Callers :
             /\ mutex = Thread(c) <=> pc[c] \in LockedPcs
             /\ ret[c] = "panic" => pc[c] \in {"afterRequest", "returned"})
  /\ [][\A c \in Callers :
          (pc[c] = "afterRequest" /\ ret[c] = "panic"
           /\ pc'[c] # "afterRequest") =>
             /\ pc'[c] = "returned" /\ ret'[c] = "panic" /\ mutex' = 0
             /\ (gen[c] = cb.generation /\ ~IntervalOver) =>
                   LET counted == countFailure(cb.counts)
                   IN  IF cb.state = StateClosed /\ ~readyToTrip(counted)
                       THEN cb' = [cb EXCEPT !.counts = counted]
                       ELSE /\ cb'.state = StateOpen
                            /\ cb'.generation = cb.generation + 1
                            /\ cb'.counts = ZeroCounts
             /\ (gen[c] # cb.generation \/ IntervalOver) =>
                   cb'.counts \in {cb.counts, ZeroCounts}]_vars

\* A panic has been passed on to its caller, counted as the one failure of
\* the generation, while another invocation is still running.
C14_Witness ==
  \E c, d \in Callers :
     /\ pc[c] = "returned" /\ ret[c] = "panic" /\ mutex = 0
     /\ pc[d] = "exec" /\ gen[d] = cb.generation
     /\ cb.state = StateClosed
     /\ cb.counts.Requests = 2 /\ cb.counts.TotalFailures = 1
     /\ cb.counts.TotalSuccesses = 0

\* C18: cb.mutex is never held by a thread whose work is running: not by a
\* caller inside fn (Execute), not by the goroutine running fn(ctx) nor by
\* the caller waiting in the select (ExecuteWithContext). The mutex is held
\* exactly by the threads inside beforeRequest and afterRequest.
C18_NoLockAcrossWork ==
  \A c \in Callers :
     /\ pc[c] \in {"exec", "select"} => mutex # Thread(c)
     /\ bg[c] \in {"running", "sent_nil", "sent_error"} =>
          mutex # Goroutine(c)
     /\ mutex = Thread(c) <=> pc[c] \in LockedPcs
     /\ mutex = Goroutine(c) <=> bg[c] \in {"afterRequest", "readyToTrip"}

\* One caller is inside fn and another one's goroutine is running fn(ctx)
\* while that caller's afterRequest holds the mutex.
C18_Witness ==
  \E c, d \in Callers :
     /\ pc[c] = "exec"
     /\ bg[d] = "running" /\ pc[d] = "afterRequest" /\ mutex = Thread(d)

\* C19: no thread holds cb.mutex and sw.mu at the same time.
C19_LocksNeverNested ==
  \A c \in Callers :
     /\ ~(mutex = Thread(c) /\ Thread(c) \in swmu)
     /\ ~(mutex = Goroutine(c) /\ Goroutine(c) \in swmu)

C21_PredicateOnlyOnClosedFailure ==
  /\ [](\A c \in Callers :
          pc[c] = "readyToTrip" =>
             /\ ret[c] \in {"error", "panic"}
             /\ cb.state = StateClosed
             /\ mutex = Thread(c)
             /\ \A d \in Callers \ {c} : pc[d] # "readyToTrip")
  /\ [][\A c \in Callers :
          /\ (pc[c] # "readyToTrip" /\ pc'[c] = "readyToTrip") =>
                /\ pc[c] = "afterRequest" /\ ret[c] # "nil"
                /\ cb.state = StateClosed /\ gen[c] = cb.generation
                /\ cb' = [cb EXCEPT !.counts = countFailure(@)]
          /\ (pc[c] = "readyToTrip" /\ pc'[c] # "readyToTrip") =>
                pc'[c] = "returned"
          /\ (pc[c] = "afterRequest" /\ pc'[c] = "returned") =>
                \/ ret[c] = "nil"
                \/ gen[c] # cb.generation
                \/ cb.state # StateClosed]_vars

\* The predicate is running for a failure in Closed while a success of the
\* same generation has been applied without it.
C21_Witness ==
  \E c, d \in Callers :
     /\ pc[c] = "readyToTrip" /\ ret[c] = "error"
     /\ pc[d] = "returned" /\ ret[d] = "nil"
     /\ cb.counts.TotalSuccesses = 1 /\ cb.counts.TotalFailures = 1

\* C22: a step that enters a new generation enters the next one and leaves
\* all counters zero; when the step is an admission, that admission alone
\* has been counted, as Requests = 1. Nothing counted before is left.
C22_NewGenerationZeroCounts ==
  [][cb'.generation # cb.generation =>
       /\ cb'.generation = cb.generation + 1
       /\ \/ cb'.counts = ZeroCounts
          \/ /\ \E c \in Callers : Admitted(c)
             /\ cb'.counts = [ZeroCounts EXCEPT !.Requests = 1]]_vars

\* A rollover in Closed has cleared a success and a failure.
C22_Witness ==
  /\ cfg.interval = 1
  /\ cb.state = StateClosed /\ cb.generation >= 2
  /\ cb.counts = ZeroCounts /\ cb.expiry = now + cfg.interval
  /\ cb.notified = <<>>
  /\ \E c, d \in Callers :
        /\ pc[c] = "returned" /\ ret[c] = "nil"
        /\ pc[d] = "returned" /\ ret[d] = "error"

C24_LazyHalfOpen ==
  /\ []((cb.state = StateOpen /\ cb.expiry < now /\ ~crashed) =>
          ENABLED (/\ StateCall
                   /\ cb'.state = StateHalfOpen
                   /\ cb'.generation = cb.generation + 1
                   /\ cb'.notified =
                        Append(cb.notified, <<StateOpen, StateHalfOpen>>)))
  /\ [][/\ now' # now => cb' = cb
        /\ (cb.state = StateOpen /\ cb'.state # StateOpen) =>
             /\ cb.expiry < now
             /\ cb'.state = StateHalfOpen
             /\ cb'.generation = cb.generation + 1
             /\ cb'.notified =
                  Append(cb.notified, <<StateOpen, StateHalfOpen>>)
             /\ \/ pc' = pc
                \/ \E c \in Callers : Attempt(c) \/ Reports(c)]_vars

\* State() has just moved the breaker to Half-Open: nothing is admitted or
\* in flight, and the clock is past the expiry the Open state had.
C24_Witness ==
  /\ cb.state = StateHalfOpen /\ cb.counts = ZeroCounts
  /\ cb.notified # <<>> /\ LastNotified = <<StateOpen, StateHalfOpen>>
  /\ \A c \in Callers : pc[c] = "idle"
  /\ lastAdmit < cb.generation - 1
\* C25: ExecuteWithFallback and ExecuteWithFallbackResult call the fallback
\* exactly when Execute returned a failure (fn's error, ErrCircuitOpen or
\* ErrTooManyRequests), with that very error as the argument, and return
\* what the fallback returned; after a nil from Execute the fallback is not
\* called and nil is returned.  The breaker changes only in the steps of
\* Execute itself: nothing after Execute's return touches it, whatever the
\* fallback returns.
C25_Fallback ==
  /\ [](\A c \in Callers :
          /\ pc[c] = "fallback" =>
                ret[c] \in Failures /\ fb[c].arg = ret[c]
          /\ pc[c] = "done" =>
                IF fb[c].arg = "none" THEN ret[c] \in {"nil", "panic"}
                ELSE fb[c].arg \in Failures /\ ret[c] = fb[c].out)
  /\ [][\A c \in Callers :
          /\ (pc[c] = "returned" /\ pc'[c] # "returned") =>
                /\ pc'[c] = "fallback" <=> ret[c] \in Failures
                /\ pc'[c] = "done" <=> ret[c] \notin Failures
                /\ pc'[c] = "done" => ret'[c] = ret[c]
          /\ (pc[c] \in {"returned", "fallback", "done"}
                /\ pc'[c] # pc[c]) =>
                cb' = cb /\ gen' = gen]_vars

\* The fallback was called with ErrCircuitOpen and returned nil, which the
\* wrapper returned; the breaker is still Open.
C25_Witness ==
  \E c \in Callers :
     /\ pc[c] = "done" /\ fb[c].arg = ErrCircuitOpen /\ ret[c] = "nil"
     /\ cb.state = StateOpen

\* C26: in a sequential run of Execute, while the breaker is Closed and
\* since its generation began, Requests is the number of admitted calls
\* (the finished ones and the one running), TotalSuccesses and
\* TotalFailures are the numbers of successes and failures, and
\* ConsecutiveSuccesses / ConsecutiveFailures are the lengths of the
\* trailing run of successes / failures.
C26_SequentialCounts ==
  cb.state = StateClosed =>
     /\ cb.counts.Requests = Len(hist) + (IF pc[1] = "exec" THEN 1 ELSE 0)
     /\ cb.counts.TotalSuccesses = Number(hist, TRUE)
     /\ cb.counts.TotalFailures = Number(hist, FALSE)
     /\ cb.counts.ConsecutiveSuccesses = Trailing(hist, TRUE)
     /\ cb.counts.ConsecutiveFailures = Trailing(hist, FALSE)

\* Three successes then two failures under Config{}: 5, 3, 2, 0, 2.
C26_Witness ==
  /\ cfg.tripN = 0 /\ cb.state = StateClosed /\ pc[1] = "idle"
  /\ hist = <<TRUE, TRUE, TRUE, FALSE, FALSE>>
  /\ cb.counts = [Requests |-> 5, TotalSuccesses |-> 3, TotalFailures |-> 2,
                  ConsecutiveSuccesses |-> 0, ConsecutiveFailures |-> 2]

\* C27: reads of the sliding window are idempotent: a read made after
\* another read, within the same bucket and with no Record or Reset in
\* between, returns the same counts, and no read changes what a Record
\* made next would leave as the window's counts.
C27_ReadsIdempotent ==
  [][ReadStep =>
       /\ (swRead.op # "none" /\ BucketStart(swRead.at) = BucketStart(now))
             => ReadCounts(swRead') = ReadCounts(swRead)
       /\ \A success \in BOOLEAN :
             windowRecord(sw', success, now).total
               = windowRecord(sw, success, now).total]_vars

C29_GapEmptiesWindow ==
  /\ []((/\ swRead.op # "none" /\ swLog # <<>>
         /\ swRead.at - LastRecord > sw.size)
        => ReadCounts(swRead) = NoTotal)
  /\ [][(/\ swLog # <<>> /\ now - LastRecord > sw.size
         /\ Len(swLog') = Len(swLog) + 1)
        => sw'.total = tally(NoTotal, swLog'[Len(swLog')][2])]_vars

\* C30: the function made by MakeReadyToTrip, whatever its Counts
\* argument, answers false when the window's valid buckets hold fewer than
\* MinRequests requests, and, when they hold any request, answers true
\* exactly when they hold at least MinRequests requests and failures /
\* requests over them is at least FailureRateThresh.
C30_TripOnWindowAggregate ==
  swRead.op = "ReadyToTrip" =>
     LET agg == ValidTotal(swRead.at)
     IN  /\ agg.requests < swRead.minRequests => ~swRead.trip
         /\ agg.requests > 0 =>
               (swRead.trip <=>
                  /\ agg.requests >= swRead.minRequests
                  /\ agg.failures * swRead.thresh[2]
                        >= swRead.thresh[1] * agg.requests)

\* C31: after any Records and Resets of the slow-call detector, totalCalls
\* is the number of durations recorded since the last Reset and slowCalls
\* the number of those strictly above SlowCallDuration, so slowCalls <=
\* totalCalls; ShouldTrip answers true exactly when slowCalls / totalCalls
\* is at least the rate threshold, and false when nothing is recorded.
C31_SlowCalls ==
  LET slow == {i \in DOMAIN det.log : det.log[i] > det.duration}
  IN  /\ det.totalCalls = Len(det.log)
      /\ det.slowCalls = Cardinality(slow)
      /\ det.slowCalls <= det.totalCalls
      /\ det.trip # <<>> =>
            det.trip[1] =
              (/\ det.log # <<>>
               /\ Cardinality(slow) * det.thresh[2]
                     >= det.thresh[1] * Len(det.log))

\* A duration equal to SlowCallDuration was recorded with a slower one, and
\* ShouldTrip answered true at a rate of exactly one half.
C31_Witness ==
  /\ det.log = <<det.duration, det.duration + 1>>
  /\ det.slowCalls = 1 /\ det.totalCalls = 2
  /\ det.thresh = <<1, 2>> /\ det.trip = <<TRUE>>

\* C32: a request that the breaker refused, at the middleware's State()
\* pre-check or in Execute after it, with either rejection, is answered by
\* the HTTP middleware with the 503 Retry-After response of OnCircuitOpen,
\* and the wrapped handler has not written a response.
C32_RefusedGets503 ==
  \A c \in Callers :
     (/\ ad[c].adapter = "HTTPMiddleware" /\ ad[c].at = "done"
      /\ ad[c].refused # "none")
     => ad[c].response = "503 Retry-After"

\* C33: every adapter records a refused request, of either kind, as one
\* rejection on the Metrics and as nothing else: no failure, no duration.
C33_RefusedIsOneRejection ==
  \A c \in Callers :
     (ad[c].at = "done" /\ ad[c].refused # "none")
     => ad[c].metrics = <<"RecordRejection">>

\* C34: in every state of the window the aggregate is the sum of the
\* tallies of the retained buckets, every bucket has successes + failures
\* = requests, and no tally of the aggregate has wrapped below zero.
C34_AggregateIsBucketSum ==
  /\ minusBuckets(sw.total, sw.buckets, Len(sw.buckets)) = NoTotal
  /\ \A i \in DOMAIN sw.buckets :
        sw.buckets[i].successes + sw.buckets[i].failures
          = sw.buckets[i].requests
  /\ sw.total.requests >= 0 /\ sw.total.successes >= 0
  /\ sw.total.failures >= 0

\* C36: a Record at time now retains a bucket exactly when its start is
\* strictly after now - size, and the tallies of the dropped buckets have
\* left the aggregate once: afterwards the aggregate is the sum of the
\* retained buckets.
C36_ExpiryAtRecord ==
  [][Len(swLog') = Len(swLog) + 1 =>
       /\ \A i \in DOMAIN sw.buckets :
             (sw.buckets[i].startTime > now - sw.size)
               <=> \E j \in DOMAIN sw'.buckets :
                      sw'.buckets[j].startTime = sw.buckets[i].startTime
       /\ minusBuckets(sw'.total, sw'.buckets, Len(sw'.buckets))
            = NoTotal]_vars

\* C37: the window never retains more buckets than its bucket count, the
\* starts of the retained buckets increase strictly from oldest to newest,
\* and after a Record the newest bucket starts at the Record's time
\* truncated to size / bucket count.
C37_BucketsBoundedOrdered ==
  /\ [](/\ Len(sw.buckets) <= sw.numBucks
        /\ \A i, j \in DOMAIN sw.buckets :
              i < j => sw.buckets[i].startTime < sw.buckets[j].startTime)
  /\ [][Len(swLog') = Len(swLog) + 1 =>
          sw'.buckets[Len(sw'.buckets)].startTime = BucketStart(now)]_vars

\* A Record into a full window has dropped the oldest bucket for a new
\* one.
C37_Witness ==
  /\ sw.numBucks = 2 /\ Len(sw.buckets) = 2 /\ Len(swLog) = 3
  /\ sw.buckets[1].startTime = 2 /\ sw.buckets[2].startTime = 3
  /\ swLog[1][1] = 1

\* C35: the window's buckets and aggregate are written only by a thread
\* that holds sw.mu exclusively; a thread that holds it as a reader writes
\* nothing.
C35_WritesUnderExclusiveLock ==
  [][sw' # sw => \E c \in Callers : pc[c] = "locked" /\ swmu = {c}]_vars

\* C38: the breaker starts Closed and its state changes only Closed -> Open,
\* Open -> Half-Open, Half-Open -> Closed and Half-Open -> Open, whatever the
\* interleaving; Open is left only by the lazy check of an expiry that is
\* over, to Half-Open with fresh counts, and no outcome is applied in the
\* step that leaves it.
C38_OnlyFourTransitions ==
  /\ cb.state = StateClosed
  /\ [][/\ cb'.state # cb.state =>
             <<cb.state, cb'.state>> \in
               { <<StateClosed, StateOpen>>, <<StateOpen, StateHalfOpen>>,
                 <<StateHalfOpen, StateClosed>>, <<StateHalfOpen, StateOpen>> }
        /\ (cb.state = StateOpen /\ cb' # cb) =>
             /\ cb.expiry < now
             /\ cb'.state = StateHalfOpen
             /\ cb'.generation = cb.generation + 1
             /\ cb'.counts \in {ZeroCounts, [ZeroCounts EXCEPT !.Requests = 1]}
             /\ (\E c \in Callers : Reports(c)) => cb'.counts = ZeroCounts]_vars

\* The breaker has tripped, gone to Half-Open at the lazy check and been
\* sent back to Open by a failed probe.
C38_Witness ==
  /\ cfg.notify
  /\ cb.state = StateOpen
  /\ cb.notified = << <<StateClosed, StateOpen>>, <<StateOpen, StateHalfOpen>>,
                      <<StateHalfOpen, StateOpen>> >>

\* ------------------------------------------------------ Half-Open progress
\* The program under the scheduling that progress needs: a caller whose slot
\* is free calls again, the work of an admitted invocation ends (fn returns
\* or panics, the select takes one of its cases, the goroutine runs to its
\* end), and a returned call is taken by its caller. Time need not pass.
Progress ==
  \A c \in Callers :
     /\ WF_vars(ExecuteCall(c) \/ ContextCall(c))
     /\ WF_vars(ExecuteReturn(c) \/ ExecutePanic(c))
     /\ WF_vars(SelectDone(c) \/ SelectCtxDone(c))
     /\ WF_vars(GoroutineSend(c) \/ GoroutinePanic(c) \/ GoroutineCrash(c))
     /\ WF_vars(Return(c))

SpecProgress == Init /\ [][Next]_vars /\ Progress

\* C39: while callers keep calling and every admitted invocation ends, a
\* Half-Open breaker leaves Half-Open (unless the process has died): to Open
\* at the first failure reported with the generation's token, to Closed at
\* the success that brings ConsecutiveSuccesses to MaxRequests.  Nothing
\* else ends Half-Open: its expiry is zero, and a step that is not a
\* completion with the generation's token leaves state and generation as
\* they are, rejecting every attempt with ErrTooManyRequests once Requests
\* has reached MaxRequests.
C39_HalfOpenProgress ==
  /\ (cb.state = StateHalfOpen) ~> (cb.state # StateHalfOpen \/ crashed)
  /\ [](cb.state = StateHalfOpen => cb.expiry = zero)
  /\ [][cb.state = StateHalfOpen =>
          /\ (\E c \in Callers : ReportsFailure(c) /\ gen[c] = cb.generation)
                => cb'.state = StateOpen
          /\ cb'.state = StateOpen =>
                \E c \in Callers : ReportsFailure(c) /\ gen[c] = cb.generation
          /\ cb'.state = StateClosed <=>
                \E c \in Callers :
                   /\ ReportsSuccess(c) /\ gen[c] = cb.generation
                   /\ cb.counts.ConsecutiveSuccesses + 1 >= cfg.maxRequests
          /\ (~ \E c \in Callers : Reports(c) /\ gen[c] = cb.generation) =>
                /\ cb'.state = StateHalfOpen
                /\ cb'.generation = cb.generation
                /\ \A c \in Callers :
                     (Attempt(c) /\ cb.counts.Requests >= cfg.maxRequests) =>
                        Rejected(c, ErrTooManyRequests) /\ cb' = cb]_vars

\* Both probes of a Half-Open breaker were admitted, one has succeeded, the
\* other is still running, and the caller of the first has called again and
\* been refused.
C39_Witness ==
  /\ cb.state = StateHalfOpen /\ cfg.maxRequests = 2
  /\ cb.counts.Requests = 2 /\ cb.counts.ConsecutiveSuccesses = 1
  /\ \E c, d \in Callers :
       /\ pc[c] \in {"exec", "select"} /\ gen[c] = cb.generation
       /\ pc[d] = "returned" /\ ret[d] = ErrTooManyRequests

\* C40: a completion's outcome is applied exactly when no generation has
\* begun since its admission, the one begun by the effective-state read of
\* its own afterRequest included: with the token still current and nothing
\* over, a success adds to TotalSuccesses or closes a Half-Open breaker and
\* a failure adds to TotalFailures or opens the breaker; otherwise no counter
\* grows and the state moves only by the lazy Open -> Half-Open step. With
\* Interval > 0, a completion processed after the interval's expiry starts
\* the next generation itself (zero counts, expiry = now + Interval) and
\* leaves the breaker Closed, whatever its outcome.
C40_LazyDiscard ==
  [][\A c \in Callers :
       Reports(c) =>
         LET begun == \/ gen[c] # cb.generation
                      \/ IntervalOver
                      \/ cb.state = StateOpen /\ cb.expiry < now
             applied ==
               IF ReportsSuccess(c)
               THEN \/ cb'.counts.TotalSuccesses = cb.counts.TotalSuccesses + 1
                    \/ cb.state = StateHalfOpen /\ cb'.state = StateClosed
               ELSE \/ cb'.counts.TotalFailures = cb.counts.TotalFailures + 1
                    \/ cb.state # StateOpen /\ cb'.state = StateOpen
         IN  /\ applied <=> ~begun
             /\ begun =>
                  /\ \A f \in CountFields : cb'.counts[f] <= cb.counts[f]
                  /\ cb'.state # cb.state =>
                        cb.state = StateOpen /\ cb'.state = StateHalfOpen
             /\ (cfg.interval > 0 /\ IntervalOver /\ gen[c] = cb.generation) =>
                  cb' = [cb EXCEPT !.generation = @ + 1,
                                   !.counts = ZeroCounts,
                                   !.expiry = now + cfg.interval]]_vars

\* A failure admitted in the breaker's latest generation has completed
\* after the interval's expiry: it began the next generation itself and was
\* not counted.
C40_Witness ==
  \E c \in Callers :
     /\ cfg.interval > 0
     /\ stale = c /\ pc[c] = "returned" /\ ret[c] = "error"
     /\ cb.state = StateClosed /\ cb.counts = ZeroCounts
     /\ cb.generation = lastAdmit + 1
     /\ cb.expiry = now + cfg.interval

====
